---- MODULE Spec2Model ----
(***************************************************************************)
(* Generation orchestration of the pixelar backend: provider selection,    *)
(* the Replicate job-creation / polling protocol, the Gemini single-call   *)
(* path, the spritesheet generator and the HTTP routes that drive them.    *)
(*                                                                         *)
(* One orchestration call (and, under RouteSpec, one HTTP request) is      *)
(* followed from entry to its result.  Every await of the code is a step;  *)
(* what the provider answers is chosen nondeterministically.  Two          *)
(* requests of one user sharing a credit balance (LedgerSpec) and the      *)
(* AssetService calls on the 'assets' collection (AssetSpec) are followed  *)
(* on their own.                                                           *)
(***************************************************************************)
EXTENDS Integers, Sequences, FiniteSets, TLC

VARIABLES
    env,        \* process.env: the platform credentials
    call,       \* the arguments of the orchestration call in progress
    pc,         \* where the orchestration call stands
    loc,        \* its local variables
    result,     \* what it returned
    mon,        \* what it has sent to the provider so far
    req,        \* the HTTP request being handled
    rpc,        \* where its handler stands
    user,       \* the user record read by the handler
    resp,       \* the response sent
    deducted,   \* the amounts passed to UserService.deductCredits
    store,      \* uploads, asset records and the project of this request
    params,     \* the parameters buildPrompt was given
    fullPrompt, \* the text buildPrompt has put together
    input,      \* the width and height generateWithReplicate puts in its input
    ledger,     \* the credit balance UserService keeps for one user
    handlers,   \* two requests of that user: where each handler stands
    assets,     \* the documents of the 'assets' collection
    acall,      \* the AssetService call in progress
    aret        \* what the last AssetService call returned or threw

svars == <<env, call, pc, loc, result, mon>>
rvars == <<req, rpc, user, resp, deducted, store>>
cvars == <<ledger, handlers>>
avars == <<assets, acall, aret>>
pvars == <<params, fullPrompt, input, cvars, avars>>
vars == <<svars, rvars, pvars>>

(***************************************************************************)
(* Bounds of the model.                                                    *)
(***************************************************************************)
\* longest frameDescriptions list
MaxFrames == 2
\* non-terminal status reports of one job that are told apart
MaxPolls == 1
\* longest output list of a succeeded job
MaxOutputs == 1

(***************************************************************************)
(* Program constants.                                                      *)
(***************************************************************************)
\* Math.min(quantity, 4)
MaxImages == 4

Placeholder == "your_gemini_api_key_here"

\* JavaScript truthiness of a string-or-undefined value; undefined is "".
Truthy(s) == s /= ""

Min(a, b) == IF a < b THEN a ELSE b

(***************************************************************************)
(* Texts are strings; what the code does with them (toLowerCase, includes, *)
(* split, +=, template literals) is done on the strings.                   *)
(***************************************************************************)
UpperCase == "ABCDEFGHIJKLMNOPQRSTUVWXYZ"
LowerCase == "abcdefghijklmnopqrstuvwxyz"

CharAt(s, i) == SubSeq(s, i, i)

LowerChar(c) ==
    IF \E i \in 1..Len(UpperCase) : CharAt(UpperCase, i) = c
    THEN CharAt(LowerCase, CHOOSE i \in 1..Len(UpperCase) : CharAt(UpperCase, i) = c)
    ELSE c

\* String.prototype.toLowerCase
RECURSIVE toLowerCase(_)
toLowerCase(s) ==
    IF s = "" THEN "" ELSE LowerChar(CharAt(s, 1)) \o toLowerCase(SubSeq(s, 2, Len(s)))

\* String.prototype.includes
includes(s, sub) ==
    \E i \in 1..(Len(s) - Len(sub) + 1) : SubSeq(s, i, i + Len(sub) - 1) = sub

\* Array.prototype.join
RECURSIVE join(_, _)
join(xs, sep) ==
    IF xs = <<>> THEN ""
    ELSE IF Len(xs) = 1 THEN xs[1]
    ELSE xs[1] \o sep \o join(Tail(xs), sep)

\* String.prototype.indexOf of a character, 0 when it is not there
IndexOf(s, c) ==
    IF \E i \in 1..Len(s) : CharAt(s, i) = c
    THEN CHOOSE i \in 1..Len(s) :
             CharAt(s, i) = c /\ \A k \in 1..(i - 1) : CharAt(s, k) /= c
    ELSE 0

\* s.split(sep)[1]: the text between the first separator and the next one;
\* undefined ("") when s has no separator
SplitSecond(s, sep) ==
    LET first == IndexOf(s, sep)
        rest == SubSeq(s, first + 1, Len(s))
        next == IndexOf(rest, sep)
    IN  IF first = 0 THEN ""
        ELSE IF next = 0 THEN rest
        ELSE SubSeq(rest, 1, next - 1)

(***************************************************************************)
(* Values exchanged with the provider.                                     *)
(***************************************************************************)
Statuses == {"starting", "processing", "succeeded", "failed"}

\* the output field of a prediction: absent, one URL, or a list of URLs
OutShapes ==
    {[kind |-> "missing", n |-> 0], [kind |-> "string", n |-> 1]}
        \cup {[kind |-> "list", n |-> m] : m \in 0..MaxOutputs}

\* the error field of a failed prediction: absent ("") or a text
ProviderErrors == {"", "provider error text"}

NoPred == [status |-> "none", out |-> [kind |-> "missing", n |-> 0], error |-> ""]

\* The job objects a provider response can carry when the job has so far
\* reported `seen` non-terminal statuses (counted up to MaxPolls): nothing
\* makes a job settle, it can report a non-terminal status every time.
Predictions(seen) ==
    {[status |-> s, out |-> [kind |-> "missing", n |-> 0], error |-> ""] :
        s \in {"starting", "processing"}}
      \cup {[status |-> "succeeded", out |-> o, error |-> ""] : o \in OutShapes}
      \cup {[status |-> "failed", out |-> [kind |-> "missing", n |-> 0], error |-> e] :
              e \in ProviderErrors}

\* The body of a poll response that is no job object, such as the error body
\* of an answer outside 200..299: it has no status, no id and no urls.
NoJob == [status |-> "undefined", out |-> [kind |-> "missing", n |-> 0], error |-> ""]

\* where the next poll request goes: prediction.urls?.get, else
\* `https://api.replicate.com/v1/predictions/${prediction.id}`
JobUrl == "https://api.replicate.com/v1/predictions/<id>"
PollUrl(p) ==
    IF p = NoJob THEN "https://api.replicate.com/v1/predictions/undefined" ELSE JobUrl

\* The parsed bodies a poll request can be answered with when the call holds
\* p: the job's report or an error body; a request that names no job gets an
\* error body.
PollAnswers(p, seen) ==
    IF PollUrl(p) = JobUrl THEN Predictions(seen) \cup {NoJob} ELSE {NoJob}

\* An output URL is named by the job that produced it and its place in the
\* job's output; the image fetched from it keeps that name.
Url(j, n) == [job |-> j, k |-> n]
UndefinedUrl == [job |-> 0, k |-> 0]

\* Array.isArray(output) ? output : [output]
ToArray(out, j) ==
    IF out.kind = "list" THEN [n \in 1..out.n |-> Url(j, n)]
    ELSE IF out.kind = "string" THEN <<Url(j, 1)>>
    ELSE <<UndefinedUrl>>

(***************************************************************************)
(* Inputs.                                                                 *)
(***************************************************************************)
\* values of REPLICATE_MODEL_ID: the model generateWithReplicate names itself,
\* or another one
ModelIds == {"retro-diffusion/rd-plus", "acme/custom-model"}

Envs ==
    [replicateToken : {"", "platform-replicate-token"},
     geminiKey : {"", Placeholder, "platform-gemini-key"},
     modelId : ModelIds]

\* the catalog, in its order, with the fields the code reads
ANIMATION_PRESETS ==
    <<[id |-> "four_angle_walking", style |-> "four_angle_walking",
       width |-> 48, height |-> 48, frameCount |-> 16],
      [id |-> "walking_and_idle", style |-> "walking_and_idle",
       width |-> 48, height |-> 48, frameCount |-> 24],
      [id |-> "small_sprites", style |-> "small_sprites",
       width |-> 32, height |-> 32, frameCount |-> 16],
      [id |-> "vfx", style |-> "vfx",
       width |-> 64, height |-> 64, frameCount |-> 8]>>

\* what find() returns when no entry matches
NoPreset == [id |-> "", style |-> "", width |-> 0, height |-> 0, frameCount |-> 0]

\* A lookup that falls back to the first entry of the catalog.
getPresetOrFirst(id) ==
    IF \E i \in 1..Len(ANIMATION_PRESETS) : ANIMATION_PRESETS[i].id = id
    THEN ANIMATION_PRESETS[CHOOSE i \in 1..Len(ANIMATION_PRESETS) :
                              /\ ANIMATION_PRESETS[i].id = id
                              /\ \A j \in 1..(i - 1) : ANIMATION_PRESETS[j].id /= id]
    ELSE ANIMATION_PRESETS[1]

\* ANIMATION_PRESETS.find(p => p.id === id)
getAnimationPreset(id) ==
    IF \E i \in 1..Len(ANIMATION_PRESETS) : ANIMATION_PRESETS[i].id = id
    THEN ANIMATION_PRESETS[CHOOSE i \in 1..Len(ANIMATION_PRESETS) :
                              /\ ANIMATION_PRESETS[i].id = id
                              /\ \A j \in 1..(i - 1) : ANIMATION_PRESETS[j].id /= id]
    ELSE NoPreset

PresetIds == {ANIMATION_PRESETS[i].id : i \in 1..Len(ANIMATION_PRESETS)}

\* customWidth / customHeight of a spritesheet request: none (0), or a size
CustomSizes == {0, 96}

NoCall ==
    [fn |-> "none", apiKey |-> "", useOwnKey |-> FALSE, provider |-> "replicate",
     quantity |-> 0, poseImage |-> FALSE, nFrames |-> 0, charIsData |-> FALSE,
     bypass |-> FALSE, presetId |-> "", customSize |-> 0]

Keys == {"", "user-key"}
Providers == {"replicate", "gemini"}
\* quantities a caller of the service can pass
ServiceQuantities == {-1, 0, 1, 2, MaxImages}

ImageCalls ==
    {[NoCall EXCEPT !.fn = "generateImages", !.apiKey = k, !.useOwnKey = u,
                    !.provider = p, !.quantity = q, !.poseImage = ps] :
        k \in Keys, u \in BOOLEAN, p \in Providers, q \in ServiceQuantities,
        ps \in BOOLEAN}

FrameCalls ==
    {[NoCall EXCEPT !.fn = "generateAnimationFrames", !.apiKey = k, !.useOwnKey = u,
                    !.provider = p, !.nFrames = n, !.charIsData = d] :
        k \in Keys, u \in BOOLEAN, p \in Providers, n \in 1..MaxFrames,
        d \in BOOLEAN}

DirectCalls ==
    {[NoCall EXCEPT !.fn = "generateDirectAnimation", !.apiKey = k, !.useOwnKey = u,
                    !.quantity = q, !.bypass = b] :
        k \in Keys, u \in BOOLEAN, q \in ServiceQuantities, b \in BOOLEAN}

SheetCalls ==
    {[NoCall EXCEPT !.fn = "generateSpritesheet", !.apiKey = "token", !.presetId = id,
                    !.customSize = cs] :
        id \in PresetIds \cup {"unknown_preset"}, cs \in CustomSizes}

Calls == ImageCalls \cup FrameCalls \cup DirectCalls \cup SheetCalls

(***************************************************************************)
(* State of one orchestration call.                                        *)
(***************************************************************************)
Loc0 ==
    [path |-> "none", token |-> "", modelId |-> "", stage |-> "none", model |-> "",
     i |-> 0, pred |-> NoPred, seen |-> 0, outs |-> <<>>, k |-> 0,
     images |-> <<>>, prompt |-> "user"]

\* path, token: the gateway the call entered and the key it uses there;
\* provider: a request went to a provider; pollTerm: a job was polled after a
\* response that carried a terminal status; failed: a generation job reported
\* 'failed'; asked: the image counts put to the provider; refine: how the
\* refinement stage ended when its job could not be created or did not
\* succeed ("absorbed": it returned buildPrompt's text, "raised": it threw);
\* gen: callReplicate was entered for a generation job; fault: a request, a
\* job or a fetch failed outside the refinement stage's own catch; posts: the
\* POSTs the last callReplicate has made to a predictions endpoint; url,
\* version: the address and the body.version of the last of them; last: the
\* status code of the last job-creation response that was read; non2xx: the
\* last such response outside 200..299, the stage it came in and the message
\* of the error raised for it; jobs: how many generation jobs the call has
\* created; open: those of them that have not yet reported 'succeeded' or
\* 'failed'; polled: the last callReplicate has sent a poll request;
\* submitted: the model and the input of each generation job callReplicate
\* was asked to create; frame: the 0-based position of the animation frame
\* last asked for and the prompt built for it
Mon0 ==
    [path |-> "none", token |-> "", provider |-> FALSE, pollTerm |-> FALSE,
     failed |-> FALSE, asked |-> {}, refine |-> "none", gen |-> FALSE,
     fault |-> FALSE, posts |-> 0, url |-> "", version |-> "",
     last |-> 0, non2xx |-> [status |-> 0, stage |-> "none", raised |-> ""],
     jobs |-> 0, open |-> {}, polled |-> FALSE, submitted |-> {},
     frame |-> [index |-> -1, prompt |-> ""]]

\* an exception reached the function's own catch
Fault(m) == [m EXCEPT !.fault = TRUE]

\* the status codes a job-creation response can carry
HttpStatuses == {200, 422, 500}

\* Every status short of a server error taken for ok.
OkBelow500(status) == status < 500

\* response.ok
Ok(status) == status >= 200 /\ status <= 299

\* `Replicate API error: ${status} - ${JSON.stringify(error)}`, with the body
\* of the response unreadable or empty
ApiErrorWithBody(status) == "Replicate API error: " \o ToString(status) \o " - {}"

\* `Replicate API error: ${status}`
ApiError(status) == "Replicate API error: " \o ToString(status)

\* a job-creation response with this status has been read in this stage;
\* msg is what the code raises when it does not take it for ok
Created(m, status, stage, msg) ==
    [m EXCEPT !.last = status,
              !.jobs = IF stage = "gen" /\ status >= 200 /\ status <= 299
                       THEN @ + 1 ELSE @,
              !.non2xx = IF status >= 200 /\ status <= 299 THEN @
                         ELSE [status |-> status, stage |-> stage,
                               raised |-> IF Ok(status) THEN "" ELSE msg]]

\* a response carrying job object p has arrived
Seen(m, p, stage) ==
    [m EXCEPT !.failed = @ \/ (p.status = "failed" /\ stage = "gen"),
              !.open = IF stage /= "gen" THEN @
                       ELSE IF p.status \in {"succeeded", "failed"} THEN @ \ {m.jobs}
                       ELSE @ \cup {m.jobs}]

NoResult ==
    [success |-> FALSE, items |-> <<>>, error |-> "", provider |-> "",
     url |-> UndefinedUrl, frameCount |-> 0, frameWidth |-> 0, frameHeight |-> 0,
     layout |-> "horizontal", thrown |-> FALSE]

Failure(msg, prov) == [NoResult EXCEPT !.error = msg, !.provider = prov]

\* An exception that leaves the function instead of being caught.
Rethrown(msg, prov) == [NoResult EXCEPT !.error = msg, !.provider = prov, !.thrown = TRUE]

\* catch (error) { return { success: false, images: [], error: error.message } }
Caught(msg, prov) == Failure(msg, prov)

Success(items, prov) == [NoResult EXCEPT !.success = TRUE, !.items = items, !.provider = prov]

(***************************************************************************)
(* Provider selection.                                                     *)
(***************************************************************************)
NoSelection == [path |-> "none", token |-> "", modelId |-> ""]

\* A selection that tries the platform Gemini key before the platform
\* Replicate token.
SelectGeminiBeforeReplicate(options, e) ==
    IF options.useOwnKey /\ Truthy(options.apiKey)
    THEN IF options.provider = "gemini"
         THEN [path |-> "gemini", token |-> options.apiKey, modelId |-> ""]
         ELSE [path |-> "replicate", token |-> options.apiKey, modelId |-> ""]
    ELSE IF Truthy(e.geminiKey) /\ e.geminiKey /= Placeholder
    THEN [path |-> "gemini", token |-> e.geminiKey, modelId |-> ""]
    ELSE IF Truthy(e.replicateToken)
    THEN [path |-> "replicate", token |-> e.replicateToken,
          modelId |-> e.modelId]
    ELSE NoSelection

\* A selection that takes the placeholder for a Gemini key.
SelectWithPlaceholder(options, e) ==
    IF options.useOwnKey /\ Truthy(options.apiKey)
    THEN IF options.provider = "gemini"
         THEN [path |-> "gemini", token |-> options.apiKey, modelId |-> ""]
         ELSE [path |-> "replicate", token |-> options.apiKey, modelId |-> ""]
    ELSE IF Truthy(e.replicateToken)
    THEN [path |-> "replicate", token |-> e.replicateToken,
          modelId |-> e.modelId]
    ELSE IF Truthy(e.geminiKey)
    THEN [path |-> "gemini", token |-> e.geminiKey, modelId |-> ""]
    ELSE NoSelection

\* generateImages / generateAnimationFrames: which gateway, whose key, and the
\* model id handed to it.
SelectProvider(options, e) ==
    IF options.useOwnKey /\ Truthy(options.apiKey)
    THEN IF options.provider = "gemini"
         THEN [path |-> "gemini", token |-> options.apiKey, modelId |-> ""]
         ELSE [path |-> "replicate", token |-> options.apiKey, modelId |-> ""]
    ELSE IF Truthy(e.replicateToken)
    THEN [path |-> "replicate", token |-> e.replicateToken,
          modelId |-> e.modelId]
    ELSE IF Truthy(e.geminiKey) /\ e.geminiKey /= Placeholder
    THEN [path |-> "gemini", token |-> e.geminiKey, modelId |-> ""]
    ELSE NoSelection

\* generateDirectAnimation: the token it ends up with ("" when none).
DirectToken(options, e) ==
    IF ~options.useOwnKey \/ ~Truthy(options.apiKey)
    THEN e.replicateToken
    ELSE options.apiKey

\* params.quantity || 1
DirectQuantity(q) == IF q = 0 THEN 1 ELSE q

(***************************************************************************)
(* Returning and raising.                                                  *)
(***************************************************************************)
\* the function returns `res`; its locals are gone
Finish(res, m) ==
    /\ result' = res
    /\ pc' = "done"
    /\ loc' = Loc0
    /\ mon' = m
    /\ UNCHANGED <<rvars, pvars, env, call>>

\* where the caller of refinePromptWithIntelligence goes on
AfterRefine(fn) == IF fn = "generateDirectAnimation" THEN "gda_loop" ELSE "gwr_generate"

\* The context refinePromptWithIntelligence is given: generateWithReplicate
\* passes its params, which hold the prompt; generateDirectAnimation passes a
\* literal { type: 'sprite', spriteType: 'character', style, viewpoint,
\* aspectRatio } without one.
RefineContext(fn) ==
    [type |-> "sprite", spriteType |-> "character",
     hasPrompt |-> (fn /= "generateDirectAnimation")]

\* buildPrompt(context) calls wantsPartialCharacter(prompt) for a sprite that
\* is no object, and prompt.toLowerCase() throws when prompt is undefined
BuildPromptThrows(ctx) ==
    ctx.type = "sprite" /\ ctx.spriteType /= "object" /\ ~ctx.hasPrompt

\* An exception raised while the locals are `l`.  Inside the refinement stage
\* refinePromptWithIntelligence catches it and returns buildPrompt(context),
\* unless buildPrompt throws in turn; that, like an exception anywhere else,
\* the function's own catch turns into a failure result.
Raise(msg, l, m) ==
    IF l.stage = "refine" /\ ~BuildPromptThrows(RefineContext(call.fn))
    THEN /\ loc' = [l EXCEPT !.prompt = "built", !.stage = "none", !.pred = NoPred,
                             !.seen = 0]
         /\ pc' = AfterRefine(call.fn)
         /\ mon' = [m EXCEPT !.refine = "absorbed"]
         /\ UNCHANGED <<rvars, pvars, env, call, result>>
    ELSE IF l.stage = "refine"
    THEN Finish(Caught("Cannot read properties of undefined (reading 'toLowerCase')",
                       l.path),
                Fault([m EXCEPT !.refine = "raised"]))
    ELSE Finish(Caught(msg, l.path), Fault(m))

\* The provider's text passed on even when there is none.
ErrorAsGiven(err, fallback) == err

\* prediction.error || fallback
ErrorOr(err, fallback) == IF Truthy(err) THEN err ELSE fallback

(***************************************************************************)
(* generateImages                                                          *)
(***************************************************************************)
GenerateImages ==
    /\ pc = "entry"
    /\ call.fn = "generateImages"
    /\ LET sel == SelectProvider(call, env) IN
        IF sel.path = "none"
        THEN Finish(Failure("No API key configured. Please add your own API key in settings or contact support.", ""), mon)
        ELSE /\ loc' = [Loc0 EXCEPT !.path = sel.path, !.token = sel.token,
                                    !.modelId = sel.modelId,
                                    !.stage = IF sel.path = "replicate" THEN "refine" ELSE "none",
                                    !.model = IF sel.path = "replicate"
                                              THEN "google/gemini-2.5-flash" ELSE ""]
             /\ pc' = IF sel.path = "replicate" THEN "cr_first" ELSE "gwg_loop"
             /\ mon' = [mon EXCEPT !.path = sel.path, !.token = sel.token]
             /\ UNCHANGED <<rvars, pvars, env, call, result>>

(***************************************************************************)
(* callReplicate                                                           *)
(***************************************************************************)
\* A loop that only stops on 'succeeded'.
CrLoopUntilSucceeded(p) == p.status /= "succeeded"

\* the condition of the polling loop
CrLoopCond(p) == p.status /= "succeeded" /\ p.status /= "failed"

\* The standard model whatever the request carries.
StandardModelOnly(poseImage) == "retro-diffusion/rd-plus"

\* if (params.poseImage): generateWithQwen, else the standard model
GenerationModel(poseImage) ==
    IF poseImage THEN "qwen/qwen-image-edit-plus" ELSE "retro-diffusion/rd-plus"

\* what the input of a generation job says about the aspect ratio and the
\* safety checker; "" and FALSE when it has no such field
GenerationInput(model) ==
    IF model = "qwen/qwen-image-edit-plus"
    THEN [aspect_ratio |-> "match_input_image", disable_safety_checker |-> TRUE]
    ELSE [aspect_ratio |-> "", disable_safety_checker |-> FALSE]

GenericEndpoint == "https://api.replicate.com/v1/predictions"

ModelEndpoint(model) == "https://api.replicate.com/v1/models/" \o model \o "/predictions"

\* url of the POST whose response is read
CreationUrl(model) ==
    IF includes(model, "/") THEN ModelEndpoint(model) ELSE GenericEndpoint

\* body.version of that POST; "" when the body has no version
CreationVersion(model) ==
    IF includes(model, "/") THEN ""
    ELSE IF includes(model, ":") THEN SplitSecond(model, ":")
    ELSE model

\* The first POST, to /v1/predictions; its response is never looked at.
CrFirstPost ==
    /\ pc = "cr_first"
    /\ \E answered \in BOOLEAN :
        LET m == [mon EXCEPT !.provider = TRUE, !.posts = 1, !.polled = FALSE,
                             !.url = GenericEndpoint,
                             !.version = IF includes(loc.model, ":")
                                         THEN SplitSecond(loc.model, ":") ELSE ""] IN
        IF answered
        THEN /\ pc' = "cr_create"
             /\ mon' = m
             /\ UNCHANGED <<rvars, pvars, env, call, loc, result>>
        ELSE Raise("fetch failed", loc, m)

\* The second POST, to the endpoint chosen from the model identifier.
CrCreate ==
    /\ pc = "cr_create"
    /\ LET m == [mon EXCEPT !.provider = TRUE, !.posts = @ + 1,
                            !.submitted = IF loc.stage = "gen"
                                          THEN @ \cup {[model |-> loc.model,
                                                         input |-> GenerationInput(loc.model)]}
                                          ELSE @,
                            !.url = CreationUrl(loc.model),
                            !.version = CreationVersion(loc.model),
                            !.asked = IF loc.stage = "gen" /\ loc.model = "retro-diffusion/rd-plus"
                                      THEN @ \cup {call.quantity}
                                      ELSE IF loc.stage = "gen" /\ loc.model = "retro-diffusion/rd-animation"
                                      THEN @ \cup {DirectQuantity(call.quantity)}
                                      ELSE @] IN
        \/ Raise("fetch failed", loc, m)
        \/ \E status \in HttpStatuses :
            LET c == Created(m, status, loc.stage, ApiErrorWithBody(status)) IN
            IF ~Ok(status)
            THEN Raise(ApiErrorWithBody(status), loc, c)
            ELSE \E p \in Predictions(0) :
                /\ loc' = [loc EXCEPT !.pred = p,
                                      !.seen = IF CrLoopCond(p) THEN 1 ELSE 0]
                /\ pc' = "cr_poll"
                /\ mon' = Seen(c, p, loc.stage)
                /\ UNCHANGED <<rvars, pvars, env, call, result>>

CrPoll ==
    /\ pc = "cr_poll"
    /\ CrLoopCond(loc.pred)
    /\ LET m == [mon EXCEPT !.provider = TRUE, !.polled = TRUE,
                            !.pollTerm = @ \/ loc.pred.status \in {"succeeded", "failed"}] IN
        \/ Raise("fetch failed", loc, m)
        \/ \E p \in PollAnswers(loc.pred, loc.seen) :
            /\ loc' = [loc EXCEPT !.pred = p,
                                  !.seen = IF p.status \in {"starting", "processing"}
                                           THEN Min(@ + 1, MaxPolls) ELSE @]
            /\ mon' = Seen(m, p, loc.stage)
            /\ UNCHANGED <<rvars, pvars, env, call, pc, result>>

\* result || userPrompt, with result the output joined when it is a list
RefinedPrompt(out) ==
    IF out.kind = "missing" \/ (out.kind = "list" /\ out.n = 0) THEN "user" ELSE "refined"

\* The loop is left: a failed job raises, anything else returns its output to
\* the caller of callReplicate.
CrReturn ==
    /\ pc = "cr_poll"
    /\ ~CrLoopCond(loc.pred)
    /\ IF loc.pred.status = "failed"
       THEN Raise(ErrorOr(loc.pred.error, "Replicate generation failed"), loc, mon)
       ELSE /\ IF loc.stage = "refine"
               THEN /\ loc' = [loc EXCEPT !.prompt = RefinedPrompt(loc.pred.out),
                                          !.stage = "none", !.pred = NoPred, !.seen = 0]
                    /\ pc' = AfterRefine(call.fn)
               ELSE /\ loc' = [loc EXCEPT !.outs = ToArray(loc.pred.out, loc.i + 1),
                                          !.k = 0, !.pred = NoPred, !.seen = 0]
                    /\ pc' = IF call.fn = "generateDirectAnimation"
                             THEN "gda_fetch" ELSE "gwr_fetch"
            /\ UNCHANGED <<rvars, pvars, env, call, result, mon>>

(***************************************************************************)
(* generateWithReplicate                                                   *)
(***************************************************************************)
\* After the refinement: the pose image decides between the image-edit model
\* and the standard model.
GwrGenerate ==
    /\ pc = "gwr_generate"
    /\ loc' = [loc EXCEPT !.stage = "gen", !.model = GenerationModel(call.poseImage)]
    /\ pc' = "cr_first"
    /\ mon' = [mon EXCEPT !.gen = TRUE]
    /\ UNCHANGED <<rvars, pvars, env, call, result>>

\* fetch(url) of the next output; fetch of an undefined URL rejects
GwrFetch ==
    /\ pc = "gwr_fetch"
    /\ loc.k < Len(loc.outs)
    /\ LET url == loc.outs[loc.k + 1] IN
        \/ Raise("fetch failed", loc, mon)
        \/ /\ url /= UndefinedUrl
           /\ loc' = [loc EXCEPT !.k = @ + 1, !.images = Append(@, url)]
           /\ UNCHANGED <<rvars, pvars, env, call, pc, result, mon>>

GwrFinish ==
    /\ pc = "gwr_fetch"
    /\ loc.k >= Len(loc.outs)
    /\ IF Len(loc.images) = 0
       THEN Raise("No images generated", loc, mon)
       ELSE Finish(Success(loc.images, "replicate"), mon)

(***************************************************************************)
(* generateWithGemini                                                      *)
(***************************************************************************)
\* What one generateContent request can come to: the fetch rejects, the
\* response is not ok, or it is ok with or without an image part.
GeminiAnswers == {"reject", "not_ok", "image", "no_image"}

GwgRequest ==
    /\ pc = "gwg_loop"
    /\ loc.i < call.quantity
    /\ \E a \in GeminiAnswers :
        LET m == [mon EXCEPT !.provider = TRUE, !.asked = @ \cup {call.quantity}] IN
        CASE a = "reject" -> Raise("fetch failed", loc, m)
          [] a = "not_ok" -> Raise("Gemini API error: status", loc, m)
          [] a = "image" ->
                /\ loc' = [loc EXCEPT !.i = @ + 1, !.images = Append(@, Url(loc.i + 1, 1))]
                /\ mon' = m
                /\ UNCHANGED <<rvars, pvars, env, call, pc, result>>
          [] a = "no_image" ->
                /\ loc' = [loc EXCEPT !.i = @ + 1]
                /\ mon' = m
                /\ UNCHANGED <<rvars, pvars, env, call, pc, result>>

GwgFinish ==
    /\ pc = "gwg_loop"
    /\ ~(loc.i < call.quantity)
    /\ IF Len(loc.images) = 0
       THEN Raise("No images generated", loc, mon)
       ELSE Finish(Success(loc.images, "gemini"), mon)

(***************************************************************************)
(* generateAnimationFrames                                                 *)
(***************************************************************************)
\* the frame descriptions of a request with n frames, and the rest of what
\* buildAnimationFramePrompt reads
FrameDescription(k) == "step " \o ToString(k) \o " of the walk cycle"

FrameParams(n) ==
    [viewType |-> "isometric", direction |-> "right", animationType |-> "walk",
     frameDescriptions |-> [k \in 1..n |-> FrameDescription(k)]]

viewDescriptions ==
    [v \in {"side", "isometric", "top_down"} |->
        CASE v = "side" -> "Maintain the side-scrolling 2D view. "
          [] v = "isometric" -> "Maintain the isometric 45-degree angle view. "
          [] v = "top_down" -> "Maintain the top-down bird's eye view. "]

directionDescriptions ==
    [d \in {"right", "left", "up", "down", "up_right", "up_left", "down_right",
            "down_left"} |->
        CASE d = "right" -> "Character should be facing right. "
          [] d = "left" -> "Character should be facing left. "
          [] d = "up" -> "Character should be facing up/away. "
          [] d = "down" -> "Character should be facing down/toward viewer. "
          [] d = "up_right" -> "Character should be facing diagonally up-right. "
          [] d = "up_left" -> "Character should be facing diagonally up-left. "
          [] d = "down_right" -> "Character should be facing diagonally down-right. "
          [] d = "down_left" -> "Character should be facing diagonally down-left. "]

\* The text of buildAnimationFramePrompt with the frame number `shown` and the
\* description at 0-based position `poseAt`; a description that is not there,
\* or is empty, adds no pose.  "\n" stands for a line break.
FramePromptText(p, shown, poseAt, totalFrames) ==
    "You are given a reference image of a game character sprite. "
        \o "Generate a new frame showing this EXACT same character in a different pose for animation. "
        \o "CRITICAL: The character must look IDENTICAL - same art style, same colors, same outfit, same proportions. "
        \o "Only the pose/position changes. "
        \o "\n\nThis is frame " \o ToString(shown) \o " of " \o ToString(totalFrames)
        \o " for a \"" \o p.animationType \o "\" animation sequence. "
        \o (IF p.viewType \in DOMAIN viewDescriptions
            THEN viewDescriptions[p.viewType] ELSE viewDescriptions["isometric"])
        \o (IF p.direction \in DOMAIN directionDescriptions
            THEN directionDescriptions[p.direction] ELSE directionDescriptions["right"])
        \o (IF poseAt + 1 \in DOMAIN p.frameDescriptions
               /\ Truthy(p.frameDescriptions[poseAt + 1])
            THEN "\n\nPOSE FOR THIS FRAME: " \o p.frameDescriptions[poseAt + 1] \o ". "
            ELSE "")
        \o "\n\nIMPORTANT: Keep EXACT same character design, colors, art style. Single character, centered, transparent background. "

\* The frames numbered as they are indexed, from 0.
FramePromptFromZero(p, frameIndex, totalFrames) ==
    FramePromptText(p, frameIndex, frameIndex, totalFrames)

buildAnimationFramePrompt(p, frameIndex, totalFrames) ==
    FramePromptText(p, frameIndex + 1, frameIndex, totalFrames)

\* const framePrompt = buildAnimationFramePrompt(params, i, totalFrames)
FrameAsked(m, i, n) ==
    [m EXCEPT !.frame = [index |-> i,
                         prompt |-> buildAnimationFramePrompt(FrameParams(n), i, n)]]

GenerateAnimationFrames ==
    /\ pc = "entry"
    /\ call.fn = "generateAnimationFrames"
    /\ LET sel == SelectProvider(call, env) IN
        IF sel.path = "none"
        THEN Finish(Failure("No API key configured. Please add your own API key in settings.", ""), mon)
        ELSE /\ loc' = [Loc0 EXCEPT !.path = sel.path, !.token = sel.token,
                                    !.modelId = sel.modelId, !.stage = "gen",
                                    !.model = IF sel.path /= "replicate" THEN ""
                                              ELSE IF Truthy(sel.modelId) THEN sel.modelId
                                              ELSE env.modelId]
             /\ pc' = IF sel.path = "replicate" THEN "gar_loop" ELSE "gag_check"
             /\ mon' = [mon EXCEPT !.path = sel.path, !.token = sel.token]
             /\ UNCHANGED <<rvars, pvars, env, call, result>>

\* A loop that only stops on 'succeeded'.
GarLoopUntilSucceeded(p) == p.status /= "succeeded"

\* No loop: the job is created and not waited for.
GarNoWait(p) == FALSE

\* the condition of the polling loop of generateAnimationWithReplicate
GarLoopCond(p) == p.status /= "succeeded" /\ p.status /= "failed"

\* the job-creation POST of frame i+1
GarCreate ==
    /\ pc = "gar_loop"
    /\ loc.i < call.nFrames
    /\ LET m == FrameAsked([mon EXCEPT !.provider = TRUE], loc.i, call.nFrames) IN
        \/ Raise("fetch failed", loc, m)
        \/ \E status \in HttpStatuses :
            LET c == Created(m, status, loc.stage, ApiError(status)) IN
            IF ~Ok(status)
            THEN Raise(ApiError(status), loc, c)
            ELSE \E p \in Predictions(0) :
                /\ loc' = [loc EXCEPT !.pred = p,
                                      !.seen = IF p.status \in {"starting", "processing"}
                                               THEN 1 ELSE 0]
                /\ pc' = "gar_poll"
                /\ mon' = Seen(c, p, loc.stage)
                /\ UNCHANGED <<rvars, pvars, env, call, result>>

GarPoll ==
    /\ pc = "gar_poll"
    /\ GarLoopCond(loc.pred)
    /\ LET m == [mon EXCEPT !.provider = TRUE,
                            !.pollTerm = @ \/ loc.pred.status \in {"succeeded", "failed"}] IN
        \/ Raise("fetch failed", loc, m)
        \/ \E p \in PollAnswers(loc.pred, loc.seen) :
            /\ loc' = [loc EXCEPT !.pred = p,
                                  !.seen = IF p.status \in {"starting", "processing"}
                                           THEN Min(@ + 1, MaxPolls) ELSE @]
            /\ mon' = Seen(m, p, loc.stage)
            /\ UNCHANGED <<rvars, pvars, env, call, pc, result>>

\* if (result.output) { outputArray = ...; if (outputArray.length > 0) ... }
GarHasOutput(out) == out.kind = "string" \/ (out.kind = "list" /\ out.n > 0)

\* The loop is left: a failed job raises; a job with an output has its first
\* URL fetched; a job without one adds no frame and the next frame is taken.
GarAfterPoll ==
    /\ pc = "gar_poll"
    /\ ~GarLoopCond(loc.pred)
    /\ IF loc.pred.status = "failed"
       THEN Raise("Frame generation failed", loc, mon)
       ELSE /\ IF GarHasOutput(loc.pred.out)
               THEN /\ loc' = [loc EXCEPT !.outs = <<ToArray(loc.pred.out, loc.i + 1)[1]>>,
                                          !.k = 0, !.pred = NoPred, !.seen = 0]
                    /\ pc' = "gar_fetch"
               ELSE /\ loc' = [loc EXCEPT !.i = @ + 1, !.pred = NoPred, !.seen = 0]
                    /\ pc' = "gar_loop"
            /\ UNCHANGED <<rvars, pvars, env, call, result, mon>>

GarFetch ==
    /\ pc = "gar_fetch"
    /\ \/ Raise("fetch failed", loc, mon)
       \/ /\ loc' = [loc EXCEPT !.i = @ + 1, !.images = Append(@, loc.outs[1]),
                                !.outs = <<>>]
          /\ pc' = "gar_loop"
          /\ UNCHANGED <<rvars, pvars, env, call, result, mon>>

GarFinish ==
    /\ pc = "gar_loop"
    /\ ~(loc.i < call.nFrames)
    /\ Finish(Success(loc.images, "replicate"), mon)

\* generateAnimationWithGemini: the character image must be a data URL
GagCheck ==
    /\ pc = "gag_check"
    /\ IF call.charIsData
       THEN /\ pc' = "gag_loop"
            /\ UNCHANGED <<rvars, pvars, env, call, loc, result, mon>>
       ELSE Raise("Invalid character image format", loc, mon)

GagRequest ==
    /\ pc = "gag_loop"
    /\ loc.i < call.nFrames
    /\ \E a \in GeminiAnswers :
        LET m == FrameAsked([mon EXCEPT !.provider = TRUE], loc.i, call.nFrames) IN
        CASE a = "reject" -> Raise("fetch failed", loc, m)
          [] a = "not_ok" -> Raise("Failed to generate frame: status", loc, m)
          [] a = "no_image" -> Raise("No image generated for frame", loc, m)
          [] a = "image" ->
                /\ loc' = [loc EXCEPT !.i = @ + 1, !.images = Append(@, Url(loc.i + 1, 1))]
                /\ mon' = m
                /\ UNCHANGED <<rvars, pvars, env, call, pc, result>>

GagFinish ==
    /\ pc = "gag_loop"
    /\ ~(loc.i < call.nFrames)
    /\ Finish(Success(loc.images, "gemini"), mon)

(***************************************************************************)
(* generateDirectAnimation                                                 *)
(***************************************************************************)
GenerateDirectAnimation ==
    /\ pc = "entry"
    /\ call.fn = "generateDirectAnimation"
    /\ LET token == DirectToken(call, env) IN
        IF ~Truthy(token)
        THEN Finish(Failure("No API key configured.", ""), mon)
        ELSE /\ loc' = [Loc0 EXCEPT !.path = "replicate", !.token = token,
                                    !.stage = IF call.bypass THEN "none" ELSE "refine",
                                    !.model = IF call.bypass THEN ""
                                              ELSE "google/gemini-2.5-flash"]
             /\ pc' = IF call.bypass THEN "gda_loop" ELSE "cr_first"
             /\ mon' = [mon EXCEPT !.path = "replicate", !.token = token]
             /\ UNCHANGED <<rvars, pvars, env, call, result>>

\* one more sheet: callReplicate(token, 'retro-diffusion/rd-animation', payload)
GdaNext ==
    /\ pc = "gda_loop"
    /\ loc.i < DirectQuantity(call.quantity)
    /\ loc' = [loc EXCEPT !.stage = "gen", !.model = "retro-diffusion/rd-animation"]
    /\ pc' = "cr_first"
    /\ mon' = [mon EXCEPT !.gen = TRUE]
    /\ UNCHANGED <<rvars, pvars, env, call, result>>

GdaFetch ==
    /\ pc = "gda_fetch"
    /\ loc.k < Len(loc.outs)
    /\ LET url == loc.outs[loc.k + 1] IN
        \/ Raise("fetch failed", loc, mon)
        \/ /\ url /= UndefinedUrl
           /\ loc' = [loc EXCEPT !.k = @ + 1, !.images = Append(@, url)]
           /\ UNCHANGED <<rvars, pvars, env, call, pc, result, mon>>

\* the outputs of this sheet are all fetched: i++
GdaFetched ==
    /\ pc = "gda_fetch"
    /\ loc.k >= Len(loc.outs)
    /\ loc' = [loc EXCEPT !.i = @ + 1, !.outs = <<>>, !.k = 0]
    /\ pc' = "gda_loop"
    /\ UNCHANGED <<rvars, pvars, env, call, result, mon>>

GdaFinish ==
    /\ pc = "gda_loop"
    /\ ~(loc.i < DirectQuantity(call.quantity))
    /\ Finish(Success(loc.images, "replicate"), mon)

(***************************************************************************)
(* generateSpritesheet                                                     *)
(***************************************************************************)
\* ANIMATION_PRESETS: the frame count of each preset
PresetFrameCount(id) == getAnimationPreset(id).frameCount

\* params.customWidth || preset.width (and the same for the height)
SizeOr(custom, own) == IF custom /= 0 THEN custom ELSE own

\* A classification that takes 8 frames for a grid already.
LayoutFromEight(frameCount) == IF frameCount >= 8 THEN "grid" ELSE "horizontal"

\* preset.frameCount > 8 ? 'grid' : 'horizontal'
Layout(frameCount) == IF frameCount > 8 THEN "grid" ELSE "horizontal"

GenerateSpritesheet ==
    /\ pc = "entry"
    /\ call.fn = "generateSpritesheet"
    /\ IF getAnimationPreset(call.presetId) = NoPreset
       THEN Finish(Caught("Invalid animation preset", ""), mon)
       ELSE /\ loc' = [Loc0 EXCEPT !.path = "replicate", !.token = call.apiKey,
                                   !.stage = "gen", !.model = "retro-diffusion/rd-animation"]
            /\ pc' = "cra_create"
            /\ mon' = [mon EXCEPT !.path = "replicate", !.token = call.apiKey]
            /\ UNCHANGED <<rvars, pvars, env, call, result>>

\* A loop that only stops on 'succeeded'.
CraLoopUntilSucceeded(p) == p.status /= "succeeded"

\* the condition of the polling loop of callReplicateAnimation
CraLoopCond(p) == p.status /= "succeeded" /\ p.status /= "failed"

CraCreate ==
    /\ pc = "cra_create"
    /\ LET m == [mon EXCEPT !.provider = TRUE] IN
        \/ Finish(Caught("fetch failed", ""), Fault(m))
        \/ \E status \in HttpStatuses :
            LET c == Created(m, status, loc.stage, ApiErrorWithBody(status)) IN
            IF ~Ok(status)
            THEN Finish(Caught(ApiErrorWithBody(status), ""), Fault(c))
            ELSE \E p \in Predictions(0) :
                /\ loc' = [loc EXCEPT !.pred = p,
                                      !.seen = IF p.status \in {"starting", "processing"}
                                               THEN 1 ELSE 0]
                /\ pc' = "cra_poll"
                /\ mon' = Seen(c, p, loc.stage)
                /\ UNCHANGED <<rvars, pvars, env, call, result>>

CraPoll ==
    /\ pc = "cra_poll"
    /\ CraLoopCond(loc.pred)
    /\ LET m == [mon EXCEPT !.provider = TRUE,
                            !.pollTerm = @ \/ loc.pred.status \in {"succeeded", "failed"}] IN
        \/ Finish(Caught("fetch failed", ""), Fault(m))
        \/ \E p \in PollAnswers(loc.pred, loc.seen) :
            /\ loc' = [loc EXCEPT !.pred = p,
                                  !.seen = IF p.status \in {"starting", "processing"}
                                           THEN Min(@ + 1, MaxPolls) ELSE @]
            /\ mon' = Seen(m, p, loc.stage)
            /\ UNCHANGED <<rvars, pvars, env, call, pc, result>>

\* The loop is left: a failed job raises; the output becomes the sheet URL.
CraReturn ==
    /\ pc = "cra_poll"
    /\ ~CraLoopCond(loc.pred)
    /\ LET out == loc.pred.out
           preset == getAnimationPreset(call.presetId)
           fc == PresetFrameCount(call.presetId) IN
        IF loc.pred.status = "failed"
        THEN Finish(Caught(ErrorOr(loc.pred.error, "Animation generation failed"), ""),
                    Fault(mon))
        ELSE IF out.kind = "missing"
        THEN Finish(Caught("Unexpected output format from rd-animation", ""), Fault(mon))
        ELSE Finish([NoResult EXCEPT !.success = TRUE,
                                     !.url = IF out.n > 0 THEN Url(1, 1) ELSE UndefinedUrl,
                                     !.frameCount = fc,
                                     !.frameWidth = SizeOr(call.customSize, preset.width),
                                     !.frameHeight = SizeOr(call.customSize, preset.height),
                                     !.layout = Layout(fc)], mon)

(***************************************************************************)
(* The prompt builder.                                                     *)
(***************************************************************************)
ratioMap ==
    [r \in {"2:3", "1:1", "9:16", "4:3", "3:2", "16:9"} |->
        CASE r = "2:3" -> [width |-> 688, height |-> 1024]
          [] r = "1:1" -> [width |-> 1024, height |-> 1024]
          [] r = "9:16" -> [width |-> 576, height |-> 1024]
          [] r = "4:3" -> [width |-> 1024, height |-> 768]
          [] r = "3:2" -> [width |-> 1024, height |-> 688]
          [] r = "16:9" -> [width |-> 1024, height |-> 576]]

\* ratioMap is an object literal: a key it does not own is looked up in
\* Object.prototype, whose members are functions, truthy and without a width
\* or a height.
ObjectPrototype ==
    [k \in {"constructor", "toString", "valueOf", "hasOwnProperty"} |-> [name |-> k]]

\* ratioMap[aspectRatio] || { width: 1024, height: 1024 }
getImageDimensions(aspectRatio) ==
    IF aspectRatio \in DOMAIN ratioMap THEN ratioMap[aspectRatio]
    ELSE IF aspectRatio \in DOMAIN ObjectPrototype THEN ObjectPrototype[aspectRatio]
    ELSE [width |-> 1024, height |-> 1024]

\* ${value} of a property of an object: a number in decimal, "undefined" for a
\* property the object does not have
Template(obj, property) ==
    IF property \in DOMAIN obj THEN ToString(obj[property]) ELSE "undefined"

\* The nine includes of the code without the toLowerCase before them.
wantsPartialCaseSensitive(prompt) ==
    \/ includes(prompt, "half body")
    \/ includes(prompt, "half-body")
    \/ includes(prompt, "upper body")
    \/ includes(prompt, "above chest")
    \/ includes(prompt, "portrait")
    \/ includes(prompt, "bust")
    \/ includes(prompt, "headshot")
    \/ includes(prompt, "face only")
    \/ includes(prompt, "torso")

wantsPartialCharacter(prompt) ==
    LET promptLower == toLowerCase(prompt)
    IN  \/ includes(promptLower, "half body")
        \/ includes(promptLower, "half-body")
        \/ includes(promptLower, "upper body")
        \/ includes(promptLower, "above chest")
        \/ includes(promptLower, "portrait")
        \/ includes(promptLower, "bust")
        \/ includes(promptLower, "headshot")
        \/ includes(promptLower, "face only")
        \/ includes(promptLower, "torso")

FullBodyClause ==
    "IMPORTANT: Generate a FULL-BODY character showing the entire figure from head to feet. The character must be fully visible and standing, NOT cropped at the chest, waist, or knees. "

viewpointDescriptions ==
    [v \in {"front", "back", "side", "top_down", "isometric"} |->
        CASE v = "front" -> "Show from a front-facing view. "
          [] v = "back" -> "Show from behind/back view. "
          [] v = "side" -> "Show from a side profile view. "
          [] v = "top_down" -> "Show from a top-down/bird's eye view. "
          [] v = "isometric" -> "Show in isometric perspective (45-degree angle). "]

buildPrompt(p) ==
    LET stylePrefix ==
            IF p.style = "pixel_art"
            THEN "Create a pixel art style image. Use clear pixel boundaries, limited color palette, and retro game aesthetic. "
            ELSE "Create a 2D flat style image with clean lines, solid colors, and modern vector-like appearance. "
        entityType == IF p.spriteType = "object" THEN "object/item" ELSE "character"
        envType == IF p.sceneType = "indoor" THEN "indoor" ELSE "outdoor"
        typeContext ==
            IF p.type = "sprite"
            THEN "This is a game sprite " \o entityType
                     \o " that should be suitable for use in a 2D video game. "
                     \o "The sprite should have a transparent or solid color background that can be easily removed. "
                     \o (IF p.spriteType /= "object" /\ ~wantsPartialCharacter(p.prompt)
                         THEN FullBodyClause ELSE "")
            ELSE "This is an " \o envType
                     \o " game scene or background environment for a 2D video game. "
        viewpoint ==
            IF p.viewpoint \in DOMAIN viewpointDescriptions
            THEN viewpointDescriptions[p.viewpoint] ELSE ""
        size == getImageDimensions(p.aspectRatio)
        aspect ==
            "The image should be " \o Template(size, "width") \o "x"
                \o Template(size, "height") \o " pixels (" \o p.aspectRatio
                \o " aspect ratio). "
        colors ==
            IF Len(p.colors) > 0
            THEN "Use these colors prominently in the design: "
                     \o join(p.colors, ", ") \o ". "
            ELSE ""
        hint ==
            IF Truthy(p.dimensions) /\ p.type = "sprite"
            THEN "The sprite should be designed to look good at " \o p.dimensions
                     \o " pixel dimensions. "
            ELSE ""
    IN  stylePrefix \o typeContext \o viewpoint \o aspect \o colors \o hint
            \o p.prompt \o " High quality, detailed, game-ready asset."

\* prompts a caller may write: plain ones, the nine markers as the code spells
\* them and in other letter cases, and texts that come close to a marker
PromptTexts ==
    {"a knight", "half body elf", "a half-body elf", "upper body", "above chest",
     "portrait of a king", "bust", "headshot", "face only", "ogre torso",
     "Half Body elf", "A HALF-BODY ELF", "Upper Body", "ABOVE CHEST",
     "Portrait of a king", "BUST", "HeadShot", "Face Only", "Ogre TORSO",
     "robust golem", "halfbody elf", "upper-body", "face-only", "a bus", "port rait"}

AspectRatios == DOMAIN ratioMap \cup {"21:9", "constructor"}

BuildParams ==
    [prompt : PromptTexts,
     type : {"sprite", "scene"},
     style : {"pixel_art", "2d_flat"},
     viewpoint : {"front", "diagonal"},
     colors : {<<>>, <<"red", "gold">>},
     dimensions : {"", "64x64"},
     aspectRatio : AspectRatios,
     spriteType : {"character", "object", "creature"},
     sceneType : {"indoor", "environment"}]

NoParams ==
    [prompt |-> "", type |-> "", style |-> "", viewpoint |-> "", colors |-> <<>>,
     dimensions |-> "", aspectRatio |-> "", spriteType |-> "", sceneType |-> ""]

\* buildPrompt(params): fullPrompt goes from '' to the text it returns.
BuildPrompt ==
    /\ params /= NoParams
    /\ fullPrompt = ""
    /\ fullPrompt' = buildPrompt(params)
    /\ UNCHANGED <<svars, rvars, params, input, cvars, avars>>

(***************************************************************************)
(* The width and height of the standard model's input.  A JavaScript       *)
(* number is a record: nan tells NaN from the integer n.                   *)
(***************************************************************************)
Num(n) == [nan |-> FALSE, n |-> n]
NaN == [nan |-> TRUE, n |-> 0]

Digits == "0123456789"

IsDigits(s) == \A i \in 1..Len(s) : IndexOf(Digits, CharAt(s, i)) /= 0

RECURSIVE DigitsValue(_)
DigitsValue(s) ==
    IF s = "" THEN 0
    ELSE 10 * DigitsValue(SubSeq(s, 1, Len(s) - 1))
             + (IndexOf(Digits, CharAt(s, Len(s))) - 1)

\* Number(text) for a text of digits, the empty text (0) and a text with a
\* character that is no digit (NaN)
Number(s) == IF IsDigits(s) THEN Num(DigitsValue(s)) ELSE NaN

\* s.split(sep)[0]
SplitFirst(s, sep) ==
    IF IndexOf(s, sep) = 0 THEN s ELSE SubSeq(s, 1, IndexOf(s, sep) - 1)

\* const [w, h] = params.dimensions.split('x').map(Number); h is
\* Number(undefined), NaN, when the text has no 'x'
ParsedWidth(dimensions) == Number(SplitFirst(dimensions, "x"))
ParsedHeight(dimensions) ==
    IF IndexOf(dimensions, "x") = 0 THEN NaN ELSE Number(SplitSecond(dimensions, "x"))

\* a property of an object as a number: NaN when the object does not have it
NumberOf(obj, property) ==
    IF property \in DOMAIN obj THEN Num(obj[property]) ELSE NaN

Max(a, b) == IF a > b THEN a ELSE b

\* Math.round(side * (384 / Math.max(width, height))); the products are exact
\* for the sides of the table
Scaled(side, dims) ==
    LET w == NumberOf(dims, "width")
        h == NumberOf(dims, "height")
        s == NumberOf(dims, side)
        m == Max(w.n, h.n)
    IN  IF w.nan \/ h.nan THEN NaN
        ELSE Num((2 * s.n * 384 + m) \div (2 * m))

\* width and height of the input of the standard model
StandardSize(p) ==
    IF Truthy(p.dimensions)
    THEN IF ~ParsedWidth(p.dimensions).nan /\ ~ParsedHeight(p.dimensions).nan
         THEN [width |-> ParsedWidth(p.dimensions), height |-> ParsedHeight(p.dimensions)]
         ELSE [width |-> Num(128), height |-> Num(128)]
    ELSE IF Truthy(p.aspectRatio)
    THEN [width |-> Scaled("width", getImageDimensions(p.aspectRatio)),
          height |-> Scaled("height", getImageDimensions(p.aspectRatio))]
    ELSE [width |-> Num(128), height |-> Num(128)]

\* no width and height worked out yet
NoInput == [width |-> Num(-1), height |-> Num(-1)]

\* texts a caller may give as dimensions: none, 'WxH', and texts that are not
\* of that form
DimensionTexts == {"", "64x64", "48x32", "128x256", "64", "wide", "32x", "x"}

SizeParams ==
    {[NoParams EXCEPT !.dimensions = d, !.aspectRatio = r] :
        d \in DimensionTexts, r \in AspectRatios \cup {""}}

\* the standard branch of generateWithReplicate works out width and height
SetSize ==
    /\ input = NoInput
    /\ input' = StandardSize(params)
    /\ UNCHANGED <<svars, rvars, params, fullPrompt, cvars, avars>>

(***************************************************************************)
(* The HTTP routes.                                                        *)
(***************************************************************************)
\* creditsRequired of each route
SpriteCredits == 5
SceneCredits == 8
FrameCredits == 3
DirectCredits == 6
SheetCredits == 10

Routes == {"sprite", "scene", "animation", "direct-animation", "spritesheet"}

\* balances a user record can show: below the need of some routes, and
\* enough for every route
Balances == {FrameCredits, SheetCredits}

\* quantities a request body can carry
RequestQuantities == {-1, 0, 1, 2, MaxImages + 1}

NoReq ==
    [route |-> "none", apiKey |-> "", provider |-> "replicate", prompt |-> "ok",
     quantity |-> 0, poseImage |-> FALSE, charImage |-> "missing", frames |-> 0,
     bypass |-> FALSE, assetId |-> "", presetId |-> "", customSize |-> 0]

\* the key a body carries and the provider named with it
KeyAndProvider == {<<"", "replicate">>, <<"user-key", "replicate">>, <<"user-key", "gemini">>}

\* prompt: missing, only blanks, or a text
Prompts == {"missing", "blank", "ok"}

SpriteRequests ==
    {[NoReq EXCEPT !.route = "sprite", !.apiKey = kp[1], !.provider = kp[2],
                   !.prompt = pr, !.quantity = q, !.poseImage = ps] :
        kp \in KeyAndProvider, pr \in Prompts, q \in RequestQuantities, ps \in BOOLEAN}

SceneRequests ==
    {[NoReq EXCEPT !.route = "scene", !.apiKey = kp[1], !.provider = kp[2],
                   !.prompt = pr, !.quantity = q] :
        kp \in KeyAndProvider, pr \in Prompts, q \in RequestQuantities}

\* frames: -1 stands for a frameDescriptions that is missing or no list
AnimationRequests ==
    {[NoReq EXCEPT !.route = "animation", !.apiKey = kp[1], !.provider = kp[2],
                   !.charImage = c, !.frames = n] :
        kp \in KeyAndProvider, c \in {"missing", "data", "url"}, n \in -1..MaxFrames}

DirectRequests ==
    {[NoReq EXCEPT !.route = "direct-animation", !.apiKey = k, !.prompt = pr,
                   !.quantity = q, !.bypass = b] :
        k \in Keys, pr \in Prompts, q \in RequestQuantities, b \in BOOLEAN}

\* assetId: missing, an asset findById returns, or one it does not
SheetRequests ==
    {[NoReq EXCEPT !.route = "spritesheet", !.apiKey = k, !.assetId = a, !.presetId = id,
                   !.customSize = cs] :
        k \in Keys, a \in {"", "own-asset", "no-such-asset"},
        id \in {"", "unknown_preset", "four_angle_walking", "vfx"},
        cs \in CustomSizes}

Requests ==
    SpriteRequests \cup SceneRequests \cup AnimationRequests \cup DirectRequests
        \cup SheetRequests

NoUser == [credits |-> 0]

NoResp ==
    [status |-> 0, error |-> "", items |-> <<>>, assets |-> <<>>,
     creditsUsed |-> 0, remainingCredits |-> 0]

\* tried, failed, createFailed: the items uploadGeneratedImage was called for,
\* those it threw for, and those AssetService.create threw for
Store0 ==
    [shouldUpload |-> FALSE, project |-> "none", j |-> 0, uploadedUrls |-> <<>>,
     savedAssets |-> <<>>, blobWrites |-> 0, dbWrites |-> 0,
     tried |-> {}, failed |-> {}, createFailed |-> {}]

\* res.status(code).json({ error })
Respond(code, err) ==
    /\ resp' = [NoResp EXCEPT !.status = code, !.error = err]
    /\ rpc' = "responded"

Receive ==
    /\ rpc = "idle"
    /\ pc = "idle"
    /\ \E r \in Requests : req' = r
    /\ rpc' = "verify"
    /\ UNCHANGED <<svars, pvars, user, resp, deducted, store>>

\* the Authorization header and verifyToken
VerifyToken ==
    /\ rpc = "verify"
    /\ \/ Respond(401, "Missing or invalid authorization header")
       \/ Respond(401, "Invalid token")
       \/ Respond(500, "Failed to generate")
       \/ /\ rpc' = "find_user"
          /\ UNCHANGED resp
    /\ UNCHANGED <<svars, pvars, req, user, deducted, store>>

\* UserService.findByFirebaseUid
FindUser ==
    /\ rpc = "find_user"
    /\ \/ /\ Respond(404, "User not found")
          /\ UNCHANGED user
       \/ /\ \E b \in Balances : user' = [credits |-> b]
          /\ rpc' = "check"
          /\ UNCHANGED resp
    /\ UNCHANGED <<svars, pvars, req, deducted, store>>

\* The comparison turned round.
InsufficientReversed(u, required) == u.credits > required

\* user.credits < creditsRequired
Insufficient(u, required) == u.credits < required

\* Every request taken to run on platform credits.
OnPlatformCreditsAlways(r) == TRUE

\* if (!userApiKey): the request runs on platform credits
OnPlatformCredits(r) == ~Truthy(r.apiKey)

\* The test without the trim: !prompt only.
PromptAbsent(r) == r.prompt = "missing"

\* !prompt || prompt.trim().length === 0
PromptMissing(r) == r.prompt \in {"missing", "blank"}

\* the handler awaits an orchestration call
StartCall(c) ==
    /\ call' = c
    /\ pc' = "entry"
    /\ rpc' = "generating"
    /\ UNCHANGED <<env, loc, result, mon, resp, pvars>>

\* the handler answers without having called the orchestrator
Reject(code, err) ==
    /\ Respond(code, err)
    /\ UNCHANGED <<svars, pvars>>

SpriteCheck ==
    /\ rpc = "check"
    /\ req.route = "sprite"
    /\ IF Insufficient(user, SpriteCredits)
       THEN Reject(402, "Insufficient credits")
       ELSE IF PromptMissing(req)
       THEN Reject(400, "Prompt is required")
       ELSE StartCall([NoCall EXCEPT !.fn = "generateImages", !.apiKey = req.apiKey,
                                     !.useOwnKey = Truthy(req.apiKey),
                                     !.provider = req.provider,
                                     !.quantity = Min(req.quantity, MaxImages),
                                     !.poseImage = req.poseImage])
    /\ UNCHANGED <<req, user, deducted, store>>

SceneCheck ==
    /\ rpc = "check"
    /\ req.route = "scene"
    /\ IF Insufficient(user, SceneCredits)
       THEN Reject(402, "Insufficient credits")
       ELSE IF PromptMissing(req)
       THEN Reject(400, "Prompt is required")
       ELSE StartCall([NoCall EXCEPT !.fn = "generateImages", !.apiKey = req.apiKey,
                                     !.useOwnKey = Truthy(req.apiKey),
                                     !.provider = req.provider,
                                     !.quantity = Min(req.quantity, MaxImages)])
    /\ UNCHANGED <<req, user, deducted, store>>

AnimationCheck ==
    /\ rpc = "check"
    /\ req.route = "animation"
    /\ IF req.charImage = "missing"
       THEN Reject(400, "Character image is required")
       ELSE IF req.frames <= 0
       THEN Reject(400, "Frame descriptions are required")
       ELSE IF Insufficient(user, req.frames * FrameCredits) /\ ~Truthy(req.apiKey)
       THEN Reject(402, "Insufficient credits")
       ELSE StartCall([NoCall EXCEPT !.fn = "generateAnimationFrames",
                                     !.apiKey = req.apiKey,
                                     !.useOwnKey = Truthy(req.apiKey),
                                     !.provider = req.provider,
                                     !.nFrames = req.frames,
                                     !.charIsData = (req.charImage = "data")])
    /\ UNCHANGED <<req, user, deducted, store>>

DirectCheck ==
    /\ rpc = "check"
    /\ req.route = "direct-animation"
    /\ IF Insufficient(user, DirectCredits)
       THEN Reject(402, "Insufficient credits")
       ELSE IF PromptMissing(req)
       THEN Reject(400, "Prompt is required")
       ELSE StartCall([NoCall EXCEPT !.fn = "generateDirectAnimation",
                                     !.apiKey = req.apiKey,
                                     !.useOwnKey = Truthy(req.apiKey),
                                     !.provider = req.provider,
                                     !.quantity = Min(req.quantity, MaxImages),
                                     !.bypass = req.bypass])
    /\ UNCHANGED <<req, user, deducted, store>>

\* the spritesheet route up to AssetService.findById
SheetCheck ==
    /\ rpc = "check"
    /\ req.route = "spritesheet"
    /\ IF ~Truthy(req.assetId)
       THEN Respond(400, "Asset ID is required")
       ELSE IF ~Truthy(req.presetId)
       THEN Respond(400, "Animation preset ID is required")
       ELSE /\ rpc' = "find_asset"
            /\ UNCHANGED resp
    /\ UNCHANGED <<svars, pvars, req, user, deducted, store>>

\* after AssetService.findById: the preset, the credits, the token
SheetFindAsset ==
    /\ rpc = "find_asset"
    /\ \/ /\ Reject(500, "Failed to generate spritesheet")
       \/ /\ req.assetId /= "own-asset"
          /\ Reject(404, "Asset not found")
       \/ /\ req.assetId = "own-asset"
          /\ LET token == IF Truthy(req.apiKey) THEN req.apiKey ELSE env.replicateToken IN
              IF getAnimationPreset(req.presetId) = NoPreset
              THEN Reject(400, "Invalid animation preset")
              ELSE IF Insufficient(user, SheetCredits) /\ ~Truthy(req.apiKey)
              THEN Reject(402, "Insufficient credits")
              ELSE IF ~Truthy(token)
              THEN Reject(500, "No API token configured")
              ELSE StartCall([NoCall EXCEPT !.fn = "generateSpritesheet",
                                            !.apiKey = token,
                                            !.presetId = req.presetId,
                                            !.customSize = req.customSize])
    /\ UNCHANGED <<req, user, deducted, store>>

\* creditsRequired as the route computes it before the generation
CreditsRequired(r) ==
    CASE r.route = "sprite" -> SpriteCredits
      [] r.route = "scene" -> SceneCredits
      [] r.route = "animation" -> r.frames * FrameCredits
      [] r.route = "direct-animation" -> DirectCredits
      [] r.route = "spritesheet" -> SheetCredits

\* the amount the route passes to deductCredits
DeductAmount(r) ==
    IF r.route = "direct-animation"
    THEN DirectCredits * Min(r.quantity, MaxImages)
    ELSE CreditsRequired(r)

\* creditsUsed of the success response when no own key is used
ReportedCredits(r) ==
    IF r.route = "direct-animation"
    THEN DirectCredits * r.quantity
    ELSE CreditsRequired(r)

\* if (!result.success) return 500; if (!userApiKey) await deductCredits(...)
AfterGenerate ==
    /\ rpc = "generating"
    /\ pc = "done"
    /\ IF ~result.success
       THEN /\ Respond(500, ErrorOr(result.error, "Generation failed"))
            /\ UNCHANGED deducted
       ELSE IF OnPlatformCredits(req)
       THEN /\ deducted' = Append(deducted, DeductAmount(req))
            /\ rpc' = "deducting"
            /\ UNCHANGED resp
       ELSE /\ rpc' = "post"
            /\ UNCHANGED <<resp, deducted>>
    /\ UNCHANGED <<svars, pvars, req, user, store>>

\* deductCredits returns, or throws into the handler's catch
DeductReturns ==
    /\ rpc = "deducting"
    /\ \/ Respond(500, "Failed to generate")
       \/ /\ rpc' = "post"
          /\ UNCHANGED resp
    /\ UNCHANGED <<svars, pvars, req, user, deducted, store>>

\* an entry of uploadedUrls: the durable URL of an item, or its data payload
Durable(item) == [kind |-> "url", item |-> item]
Embedded(item) == [kind |-> "data", item |-> item]

\* the success response of the sprite, scene, animation and direct routes
RespondItems(entries, st) ==
    /\ resp' = [NoResp EXCEPT !.status = 200,
                              !.items = entries,
                              !.assets = st.savedAssets,
                              !.creditsUsed = IF Truthy(req.apiKey) THEN 0
                                              ELSE ReportedCredits(req),
                              !.remainingCredits = IF Truthy(req.apiKey) THEN user.credits
                                                   ELSE user.credits - ReportedCredits(req)]
    /\ rpc' = "responded"

\* After the deduction: saveToCloud and projectId are looked at, and the
\* project is created when uploads are due and no projectId was given.
PostStart ==
    /\ rpc = "post"
    /\ req.route \in {"sprite", "scene", "direct-animation"}
    /\ \E save \in IF req.route = "scene" THEN {TRUE} ELSE BOOLEAN, given \in BOOLEAN :
        IF save /\ Len(result.items) > 0
        THEN /\ store' = [store EXCEPT !.shouldUpload = save,
                                       !.project = IF given THEN "given" ELSE "none"]
             /\ rpc' = IF given THEN "upload" ELSE "project"
             /\ UNCHANGED resp
        ELSE /\ store' = [store EXCEPT !.shouldUpload = save]
             /\ RespondItems(IF save THEN <<>>
                             ELSE [n \in 1..Len(result.items) |-> Embedded(result.items[n])],
                             store)
    /\ UNCHANGED <<svars, pvars, req, user, deducted>>

\* ProjectService.create returns, or throws into the handler's catch
ProjectCreate ==
    /\ rpc = "project"
    /\ \/ /\ Respond(500, "Failed to generate")
          /\ UNCHANGED store
       \/ /\ store' = [store EXCEPT !.project = "created", !.dbWrites = @ + 1]
          /\ rpc' = "upload"
          /\ UNCHANGED resp
    /\ UNCHANGED <<svars, pvars, req, user, deducted>>

\* the animation route uploads every frame, with no project of its own
AnimationPost ==
    /\ rpc = "post"
    /\ req.route = "animation"
    /\ store' = [store EXCEPT !.shouldUpload = TRUE]
    /\ rpc' = "upload"
    /\ UNCHANGED <<svars, pvars, req, user, resp, deducted>>

\* A catch that moves on without an entry for the item.
UploadErrorDropsItem(st, item) == [st EXCEPT !.j = @ + 1]

\* catch (uploadError): the payload is pushed and the loop moves on
OnUploadError(st, item) ==
    [st EXCEPT !.uploadedUrls = Append(@, Embedded(item)), !.j = @ + 1]

\* uploadGeneratedImage of item j+1 (tried); on a throw (failed) the catch runs
UploadItem ==
    /\ rpc = "upload"
    /\ store.j < Len(result.items)
    /\ LET item == result.items[store.j + 1]
           st == [store EXCEPT !.tried = @ \cup {store.j + 1}] IN
        \/ /\ store' = OnUploadError([st EXCEPT !.failed = @ \cup {store.j + 1}], item)
           /\ UNCHANGED rpc
        \/ /\ store' = [st EXCEPT !.uploadedUrls = Append(@, Durable(item)),
                                  !.blobWrites = @ + 1]
           /\ rpc' = "asset"
    /\ UNCHANGED <<svars, pvars, req, user, resp, deducted>>

\* AssetService.create of item j+1, inside the same try as the upload: a
\* throw (createFailed) runs the same catch
CreateAsset ==
    /\ rpc = "asset"
    /\ LET item == result.items[store.j + 1] IN
        \/ store' = OnUploadError([store EXCEPT !.createFailed = @ \cup {store.j + 1}], item)
        \/ store' = [store EXCEPT !.savedAssets = Append(@, item),
                                  !.dbWrites = @ + 1,
                                  !.j = @ + 1]
    /\ rpc' = "upload"
    /\ UNCHANGED <<svars, pvars, req, user, resp, deducted>>

UploadsDone ==
    /\ rpc = "upload"
    /\ ~(store.j < Len(result.items))
    /\ RespondItems(store.uploadedUrls, store)
    /\ UNCHANGED <<svars, pvars, req, user, deducted, store>>

\* the spritesheet route: uploadSpritesheet, outside any inner try
SheetUpload ==
    /\ rpc = "post"
    /\ req.route = "spritesheet"
    /\ \/ /\ Respond(500, "Failed to generate spritesheet")
          /\ UNCHANGED store
       \/ /\ result.url /= UndefinedUrl
          /\ store' = [store EXCEPT !.uploadedUrls = <<Durable(result.url)>>,
                                    !.blobWrites = @ + 1]
          /\ rpc' = "sheet_asset"
          /\ UNCHANGED resp
    /\ UNCHANGED <<svars, pvars, req, user, deducted>>

\* the spritesheet route: AssetService.create and the success response
SheetAsset ==
    /\ rpc = "sheet_asset"
    /\ \/ /\ Respond(500, "Failed to generate spritesheet")
          /\ UNCHANGED store
       \/ /\ store' = [store EXCEPT !.savedAssets = <<result.url>>, !.dbWrites = @ + 1]
          /\ resp' = [NoResp EXCEPT !.status = 200,
                                    !.items = store.uploadedUrls,
                                    !.assets = <<result.url>>,
                                    !.creditsUsed = IF Truthy(req.apiKey) THEN 0
                                                    ELSE SheetCredits,
                                    !.remainingCredits = IF Truthy(req.apiKey)
                                                         THEN user.credits
                                                         ELSE user.credits - SheetCredits]
          /\ rpc' = "responded"
    /\ UNCHANGED <<svars, pvars, req, user, deducted>>

(***************************************************************************)
(* Two requests of one user handled at the same time.  Each handler is     *)
(* followed from one await to the next; the generation call is an await    *)
(* that comes back with success or without.                                *)
(***************************************************************************)
HandlerIds == {1, 2}

\* requests that pass every validation of their route
LedgerRequests ==
    {[NoReq EXCEPT !.route = "sprite", !.apiKey = k, !.quantity = 1] : k \in Keys}
      \cup {[NoReq EXCEPT !.route = "spritesheet", !.apiKey = k, !.assetId = "own-asset",
                          !.presetId = "vfx"] : k \in Keys}

NoHandler == [pc |-> "idle", req |-> NoReq, user |-> NoUser, status |-> 0]

\* held: the balance before the two requests; taken: the total passed to
\* deductCredits since
Ledger0(b) == [held |-> b, balance |-> b, taken |-> 0]

LedgerIdle ==
    /\ ledger = Ledger0(0)
    /\ handlers = [h \in HandlerIds |-> NoHandler]

\* UserService.deductCredits(userId, amount): the balance is decremented
\* atomically by the amount
deductCredits(l, amount) == [l EXCEPT !.balance = @ - amount, !.taken = @ + amount]

\* user.credits < creditsRequired, with && !apiKey in the animation and
\* spritesheet routes
CreditCheckFails(r, u) ==
    /\ Insufficient(u, CreditsRequired(r))
    /\ r.route \in {"animation", "spritesheet"} => ~Truthy(r.apiKey)

\* handler h goes on to pc p
Goto(h, p) == handlers' = [handlers EXCEPT ![h].pc = p]

\* handler h answers with the status
Answer(h, status) == handlers' = [handlers EXCEPT ![h].pc = "responded", ![h].status = status]

HcReceive ==
    \E h \in HandlerIds, r \in LedgerRequests :
        /\ handlers[h].pc = "idle"
        /\ handlers' = [handlers EXCEPT ![h].pc = "verify", ![h].req = r]
        /\ UNCHANGED <<svars, rvars, params, fullPrompt, input, ledger, avars>>

\* await verifyToken(token)
HcVerify ==
    \E h \in HandlerIds :
        /\ handlers[h].pc = "verify"
        /\ Answer(h, 401) \/ Goto(h, "find_user")
        /\ UNCHANGED <<svars, rvars, params, fullPrompt, input, ledger, avars>>

\* await UserService.findByFirebaseUid(uid): the record carries the balance
\* kept at this moment
HcFindUser ==
    \E h \in HandlerIds :
        /\ handlers[h].pc = "find_user"
        /\ \/ Answer(h, 404)
           \/ handlers' = [handlers EXCEPT
                  ![h].user = [credits |-> ledger.balance],
                  ![h].pc = IF handlers[h].req.route = "spritesheet"
                            THEN "find_asset" ELSE "check"]
        /\ UNCHANGED <<svars, rvars, params, fullPrompt, input, ledger, avars>>

\* the spritesheet route: await AssetService.findById(assetId, user.id)
HcFindAsset ==
    \E h \in HandlerIds :
        /\ handlers[h].pc = "find_asset"
        /\ Answer(h, 404) \/ Answer(h, 500) \/ Goto(h, "check")
        /\ UNCHANGED <<svars, rvars, params, fullPrompt, input, ledger, avars>>

\* the credit check, on the record read before, and the start of the
\* generation call
HcCheck ==
    \E h \in HandlerIds :
        /\ handlers[h].pc = "check"
        /\ IF CreditCheckFails(handlers[h].req, handlers[h].user)
           THEN Answer(h, 402)
           ELSE Goto(h, "generating")
        /\ UNCHANGED <<svars, rvars, params, fullPrompt, input, ledger, avars>>

\* the generation call comes back: if (!result.success) return 500; then
\* if (!apiKey) deductCredits is called
HcGenerated ==
    \E h \in HandlerIds, success \in BOOLEAN :
        /\ handlers[h].pc = "generating"
        /\ IF ~success THEN Answer(h, 500)
           ELSE IF OnPlatformCredits(handlers[h].req) THEN Goto(h, "deducting")
           ELSE Goto(h, "post")
        /\ UNCHANGED <<svars, rvars, params, fullPrompt, input, ledger, avars>>

\* await UserService.deductCredits(user.id, amount)
HcDeduct ==
    \E h \in HandlerIds :
        /\ handlers[h].pc = "deducting"
        /\ \/ /\ Answer(h, 500)
              /\ UNCHANGED ledger
           \/ /\ ledger' = deductCredits(ledger, DeductAmount(handlers[h].req))
              /\ Goto(h, "post")
        /\ UNCHANGED <<svars, rvars, params, fullPrompt, input, avars>>

\* the uploads and the asset records, then the response
HcRespond ==
    \E h \in HandlerIds :
        /\ handlers[h].pc = "post"
        /\ Answer(h, 200) \/ Answer(h, 500)
        /\ UNCHANGED <<svars, rvars, params, fullPrompt, input, ledger, avars>>

(***************************************************************************)
(* AssetService                                                            *)
(***************************************************************************)
\* One call at a time is followed from one await to the next, and the store
\* answers every request.
AssetIds == {"a1", "a2"}
UserIds == {"alice", "bob"}

\* the userId argument of a call: a user's id, or none
CallerIds == UserIds \cup {""}

\* A document of the collection.  file: the blob behind blob_url is in the
\* bucket; writer: the userId argument of the call that last wrote the
\* document or removed it, "none" before any (it stands for updated_at as
\* well).  Of a removed document the owner, the file and the writer are
\* remembered.
Doc(owner) ==
    [exists |-> TRUE, user_id |-> owner, status |-> "active", name |-> "sprite",
     file |-> TRUE, writer |-> "none"]

\* what a call returns for an asset: { id: doc.id, ...doc.data() }
AssetOf(c, id) ==
    [id |-> id, user_id |-> c[id].user_id, status |-> c[id].status, name |-> c[id].name]

\* null
NoAsset == [id |-> "", user_id |-> "", status |-> "", name |-> ""]

\* A lookup that does not compare the owner.
findByIdAnyOwner(c, id, userId) ==
    IF ~c[id].exists THEN NoAsset ELSE AssetOf(c, id)

\* AssetService.findById(id, userId) on the collection c
findById(c, id, userId) ==
    IF ~c[id].exists THEN NoAsset
    ELSE IF Truthy(userId) /\ c[id].user_id /= userId THEN NoAsset
    ELSE AssetOf(c, id)

\* AssetService.list({ user_id, status }): the ids of the documents the query
\* matches; without a status filter the active ones
list(c, user_id, status) ==
    {id \in AssetIds :
        /\ c[id].exists
        /\ Truthy(user_id) => c[id].user_id = user_id
        /\ c[id].status = IF Truthy(status) THEN status ELSE "active"}

AssetOps == {"findById", "list", "update", "delete", "hardDelete"}

\* arg: updates.name of an update ("" when it is not given), the status
\* filter of a list ("" when there is none); before: the document as it was
\* when the call was made
NoAssetCall ==
    [op |-> "none", id |-> "", userId |-> "", arg |-> "", pc |-> "idle",
     before |-> Doc("")]

AssetCalls ==
    {[NoAssetCall EXCEPT !.op = op, !.id = id, !.userId = u, !.pc = "find"] :
        op \in {"findById", "delete", "hardDelete"}, id \in AssetIds, u \in CallerIds}
      \cup {[NoAssetCall EXCEPT !.op = "update", !.id = id, !.userId = u, !.arg = n,
                                !.pc = "find"] :
              id \in AssetIds, u \in CallerIds, n \in {"", "renamed"}}
      \cup {[NoAssetCall EXCEPT !.op = "list", !.userId = u, !.arg = st, !.pc = "query"] :
              u \in CallerIds, st \in {"", "active", "deleted"}}

\* kind: "asset", "null", "list", "void", or "error" for a throw
NoReturn ==
    [op |-> "none", id |-> "", userId |-> "", arg |-> "", before |-> Doc(""),
     kind |-> "none", asset |-> NoAsset, ids |-> {}, error |-> ""]

AssetsIdle ==
    /\ assets = [id \in AssetIds |-> Doc("")]
    /\ acall = NoAssetCall
    /\ aret = NoReturn

\* the call in progress ends with this kind of result
Return(kind, asset, ids, error) ==
    /\ aret' = [op |-> acall.op, id |-> acall.id, userId |-> acall.userId,
                arg |-> acall.arg, before |-> acall.before,
                kind |-> kind, asset |-> asset, ids |-> ids, error |-> error]
    /\ acall' = NoAssetCall

AsInvoke ==
    /\ acall.pc = "idle"
    /\ \E c \in AssetCalls :
        acall' = [c EXCEPT !.before = IF c.op = "list" THEN Doc("") ELSE assets[c.id]]
    /\ aret' = NoReturn
    /\ UNCHANGED <<svars, rvars, params, fullPrompt, input, cvars, assets>>

\* the lookup every call but list begins with: findById returns what it
\* finds; update, delete and hardDelete throw when it finds nothing
AsFind ==
    /\ acall.pc = "find"
    /\ LET asset == findById(assets, acall.id, acall.userId) IN
        IF acall.op = "findById"
        THEN Return(IF asset = NoAsset THEN "null" ELSE "asset", asset, {}, "")
        ELSE IF asset = NoAsset
        THEN Return("error", NoAsset, {}, "Asset not found")
        ELSE /\ acall' = [acall EXCEPT !.pc = IF acall.op = "hardDelete"
                                               THEN "storage" ELSE "write"]
             /\ UNCHANGED aret
    /\ UNCHANGED <<svars, rvars, params, fullPrompt, input, cvars, assets>>

\* update: doc(id).update(updateData)
AsUpdate ==
    /\ acall.pc = "write"
    /\ acall.op = "update"
    /\ assets' = [assets EXCEPT ![acall.id].name = IF acall.arg /= "" THEN acall.arg ELSE @,
                                ![acall.id].writer = acall.userId]
    /\ acall' = [acall EXCEPT !.pc = "reread"]
    /\ UNCHANGED <<svars, rvars, params, fullPrompt, input, cvars, aret>>

\* update: updatedAsset = await this.findById(id, userId), which is returned
AsReread ==
    /\ acall.pc = "reread"
    /\ LET asset == findById(assets, acall.id, acall.userId) IN
        Return(IF asset = NoAsset THEN "null" ELSE "asset", asset, {}, "")
    /\ UNCHANGED <<svars, rvars, params, fullPrompt, input, cvars, assets>>

\* delete: doc(id).update({ status: 'deleted', updated_at })
AsDelete ==
    /\ acall.pc = "write"
    /\ acall.op = "delete"
    /\ assets' = [assets EXCEPT ![acall.id].status = "deleted",
                                ![acall.id].writer = acall.userId]
    /\ Return("void", NoAsset, {}, "")
    /\ UNCHANGED <<svars, rvars, params, fullPrompt, input, cvars>>

\* hardDelete: the file is deleted from the bucket when it is there; an
\* error of the storage is caught and the call goes on
AsStorage ==
    /\ acall.pc = "storage"
    /\ \/ assets' = [assets EXCEPT ![acall.id].file = FALSE]
       \/ UNCHANGED assets
    /\ acall' = [acall EXCEPT !.pc = "remove"]
    /\ UNCHANGED <<svars, rvars, params, fullPrompt, input, cvars, aret>>

\* hardDelete: doc(id).delete()
AsRemove ==
    /\ acall.pc = "remove"
    /\ assets' = [assets EXCEPT ![acall.id] =
                      [Doc(@.user_id) EXCEPT !.exists = FALSE,
                                             !.file = assets[acall.id].file,
                                             !.writer = acall.userId]]
    /\ Return("void", NoAsset, {}, "")
    /\ UNCHANGED <<svars, rvars, params, fullPrompt, input, cvars>>

\* list: the query is run
AsList ==
    /\ acall.pc = "query"
    /\ Return("list", NoAsset, list(assets, acall.userId, acall.arg), "")
    /\ UNCHANGED <<svars, rvars, params, fullPrompt, input, cvars, assets>>

(***************************************************************************)
(* Specifications.                                                         *)
(***************************************************************************)
\* platform configurations the routes are run under: no credential, the
\* Replicate token only, the Gemini key only, each with a REPLICATE_MODEL_ID
\* of its own
RouteEnvs ==
    {e \in Envs : /\ ~(Truthy(e.replicateToken) /\ Truthy(e.geminiKey))
                  /\ e.geminiKey /= Placeholder
                  /\ e.modelId = "acme/custom-model"}

Idle ==
    /\ call = NoCall
    /\ pc = "idle"
    /\ loc = Loc0
    /\ result = NoResult
    /\ mon = Mon0
    /\ req = NoReq
    /\ rpc = "idle"
    /\ user = NoUser
    /\ resp = NoResp
    /\ deducted = <<>>
    /\ store = Store0
    /\ params = NoParams
    /\ fullPrompt = ""
    /\ input = NoInput
    /\ LedgerIdle /\ AssetsIdle

RouteInit == env \in RouteEnvs /\ Idle

Init == env \in Envs /\ Idle

\* A caller enters one of the exported service functions.
Invoke ==
    /\ pc = "idle"
    /\ rpc = "idle"
    /\ \E c \in Calls : call' = c
    /\ pc' = "entry"
    /\ UNCHANGED <<rvars, pvars, env, loc, result, mon>>

ServiceNext ==
    \/ GenerateImages \/ CrFirstPost \/ CrCreate \/ CrPoll \/ CrReturn
    \/ GwrGenerate \/ GwrFetch \/ GwrFinish
    \/ GwgRequest \/ GwgFinish
    \/ GenerateAnimationFrames \/ GarCreate \/ GarPoll \/ GarAfterPoll \/ GarFetch
    \/ GarFinish \/ GagCheck \/ GagRequest \/ GagFinish
    \/ GenerateDirectAnimation \/ GdaNext \/ GdaFetch \/ GdaFetched \/ GdaFinish
    \/ GenerateSpritesheet \/ CraCreate \/ CraPoll \/ CraReturn

RouteNext ==
    \/ Receive \/ VerifyToken \/ FindUser
    \/ SpriteCheck \/ SceneCheck \/ AnimationCheck \/ DirectCheck
    \/ SheetCheck \/ SheetFindAsset
    \/ AfterGenerate \/ DeductReturns
    \/ PostStart \/ ProjectCreate \/ AnimationPost
    \/ UploadItem \/ CreateAsset \/ UploadsDone
    \/ SheetUpload \/ SheetAsset

\* The service on its own: any caller, any options.
Next == Invoke \/ ServiceNext

Spec == Init /\ [][Next]_vars

\* The service with its continuations scheduled: a call that can take a step
\* takes one.
LiveSpec == Init /\ [][Next]_vars /\ WF_vars(ServiceNext)

\* The routes driving the service.
NextRoute == RouteNext \/ ServiceNext

RouteSpec == RouteInit /\ [][NextRoute]_vars

\* The service called directly or through a route.
NextAny == Invoke \/ RouteNext \/ ServiceNext

AnySpec == RouteInit /\ [][NextAny]_vars

\* buildPrompt on its own, given any parameters; nothing else is running and
\* no credential is read.
PromptInit ==
    /\ env = [replicateToken |-> "", geminiKey |-> "", modelId |-> "retro-diffusion/rd-plus"]
    /\ call = NoCall /\ pc = "idle" /\ loc = Loc0 /\ result = NoResult /\ mon = Mon0
    /\ req = NoReq /\ rpc = "idle" /\ user = NoUser /\ resp = NoResp
    /\ deducted = <<>> /\ store = Store0
    /\ params \in BuildParams
    /\ fullPrompt = ""
    /\ input = NoInput
    /\ LedgerIdle /\ AssetsIdle

PromptNext == BuildPrompt

PromptSpec == PromptInit /\ [][PromptNext]_vars

\* The size computation of generateWithReplicate on its own, given any
\* dimensions and aspect ratio.
SizeInit ==
    /\ env = [replicateToken |-> "", geminiKey |-> "", modelId |-> "retro-diffusion/rd-plus"]
    /\ call = NoCall /\ pc = "idle" /\ loc = Loc0 /\ result = NoResult /\ mon = Mon0
    /\ req = NoReq /\ rpc = "idle" /\ user = NoUser /\ resp = NoResp
    /\ deducted = <<>> /\ store = Store0
    /\ params \in SizeParams
    /\ fullPrompt = ""
    /\ input = NoInput
    /\ LedgerIdle /\ AssetsIdle

SizeNext == SetSize

SizeSpec == SizeInit /\ [][SizeNext]_vars

\* model identifiers of the three shapes callReplicate tells apart: owner/name,
\* owner/name:version, and a version on its own
GatewayModels ==
    {"retro-diffusion/rd-plus", "google/gemini-2.5-flash",
     "acme/upscaler:5c7d5dc6", "5c7d5dc6"}

\* callReplicate on its own, given any model identifier, for a caller that
\* brought its own key
GatewayInit ==
    /\ env = [replicateToken |-> "", geminiKey |-> "", modelId |-> "retro-diffusion/rd-plus"]
    /\ \E c \in ImageCalls :
           /\ c.useOwnKey /\ Truthy(c.apiKey) /\ c.provider = "replicate"
           /\ c.quantity \in 1..2 /\ ~c.poseImage
           /\ call = c
    /\ pc = "cr_first"
    /\ \E model \in GatewayModels, stage \in {"refine", "gen"} :
           loc = [Loc0 EXCEPT !.path = "replicate", !.token = call.apiKey,
                              !.stage = stage, !.model = model]
    /\ result = NoResult
    /\ mon = [Mon0 EXCEPT !.path = "replicate", !.token = call.apiKey]
    /\ req = NoReq /\ rpc = "idle" /\ user = NoUser /\ resp = NoResp
    /\ deducted = <<>> /\ store = Store0
    /\ params = NoParams /\ fullPrompt = "" /\ input = NoInput
    /\ LedgerIdle /\ AssetsIdle

GatewayNext == CrFirstPost \/ CrCreate \/ CrPoll \/ CrReturn

GatewaySpec == GatewayInit /\ [][GatewayNext]_vars

\* Two requests of one user, on platform credits or with an own key, with
\* any balance to start from.
LedgerInit ==
    /\ env = [replicateToken |-> "platform-replicate-token", geminiKey |-> "",
              modelId |-> "retro-diffusion/rd-plus"]
    /\ call = NoCall /\ pc = "idle" /\ loc = Loc0 /\ result = NoResult /\ mon = Mon0
    /\ req = NoReq /\ rpc = "idle" /\ user = NoUser /\ resp = NoResp
    /\ deducted = <<>> /\ store = Store0
    /\ params = NoParams /\ fullPrompt = "" /\ input = NoInput
    /\ \E b \in Balances : ledger = Ledger0(b)
    /\ handlers = [h \in HandlerIds |-> NoHandler]
    /\ AssetsIdle

LedgerNext ==
    \/ HcReceive \/ HcVerify \/ HcFindUser \/ HcFindAsset \/ HcCheck
    \/ HcGenerated \/ HcDeduct \/ HcRespond

LedgerSpec == LedgerInit /\ [][LedgerNext]_vars

\* AssetService on a collection of two assets: one of alice, one of either
\* user.
AssetInit ==
    /\ env = [replicateToken |-> "", geminiKey |-> "", modelId |-> "retro-diffusion/rd-plus"]
    /\ call = NoCall /\ pc = "idle" /\ loc = Loc0 /\ result = NoResult /\ mon = Mon0
    /\ req = NoReq /\ rpc = "idle" /\ user = NoUser /\ resp = NoResp
    /\ deducted = <<>> /\ store = Store0
    /\ params = NoParams /\ fullPrompt = "" /\ input = NoInput
    /\ LedgerIdle
    /\ \E owner \in UserIds :
           assets = [id \in AssetIds |-> IF id = "a1" THEN Doc("alice") ELSE Doc(owner)]
    /\ acall = NoAssetCall
    /\ aret = NoReturn

AssetNext ==
    \/ AsInvoke \/ AsFind \/ AsUpdate \/ AsReread \/ AsDelete
    \/ AsStorage \/ AsRemove \/ AsList

AssetSpec == AssetInit /\ [][AssetNext]_vars

(***************************************************************************)
(* Properties                                                              *)
(***************************************************************************)
\* the caller's own key counts when it is there and useOwnKey is set
OwnKey(c) == c.useOwnKey /\ Truthy(c.apiKey)

\* the order of C1, one rule per line: when it matches, and what it selects
SelectionOrder(c, e) ==
    <<[when |-> OwnKey(c) /\ c.provider = "gemini", path |-> "gemini", token |-> c.apiKey],
      [when |-> OwnKey(c), path |-> "replicate", token |-> c.apiKey],
      [when |-> e.replicateToken /= "", path |-> "replicate", token |-> e.replicateToken],
      [when |-> e.geminiKey \notin {"", Placeholder}, path |-> "gemini", token |-> e.geminiKey],
      [when |-> TRUE, path |-> "none", token |-> ""]>>

FirstMatch(rules) ==
    rules[CHOOSE i \in 1..Len(rules) : rules[i].when /\ \A j \in 1..(i - 1) : ~rules[j].when]

\* the steps of generateWithGemini, and those of generateWithReplicate
GeminiSteps == {"gwg_loop"}
PollingSteps == {"cr_first", "cr_create", "cr_poll", "gwr_generate", "gwr_fetch"}

\* C1: once generateImages has chosen, the gateway it is in and the key it
\* uses there are those of the first matching rule of: own key with provider
\* 'gemini' -> Gemini with the own key; own key -> polling path with the own
\* key; platform Replicate token -> polling path with it; platform Gemini key
\* that is not the placeholder -> Gemini with it; otherwise no gateway, and
\* then the call is over without a request to a provider.
C1_SelectionOrder ==
    (call.fn = "generateImages" /\ pc \notin {"idle", "entry"}) =>
        LET r == FirstMatch(SelectionOrder(call, env)) IN
            /\ mon.path = r.path
            /\ mon.token = r.token
            /\ pc /= "done" => loc.path = r.path /\ loc.token = r.token
            /\ r.path = "gemini" => pc \in GeminiSteps \cup {"done"}
            /\ r.path = "replicate" => pc \in PollingSteps \cup {"done"}
            /\ r.path = "none" => pc = "done" /\ ~result.success /\ ~mon.provider

\* generateImages has produced images on the platform Gemini key, the
\* Replicate token being unset
C1_Witness ==
    /\ call.fn = "generateImages"
    /\ pc = "done"
    /\ result.success
    /\ ~OwnKey(call)
    /\ env.replicateToken = ""
    /\ mon.path = "gemini"
    /\ mon.token = env.geminiKey

\* no own key, and neither platform credential usable
NoCredential(c, e) ==
    ~OwnKey(c) /\ e.replicateToken = "" /\ e.geminiKey \in {"", Placeholder}

\* C2: with no own key and neither platform credential usable, generateImages
\* and generateAnimationFrames send nothing to any provider and return
\* success:false with a non-empty error and an empty list.
C2_NoCredentialFails ==
    (call.fn \in {"generateImages", "generateAnimationFrames"} /\ NoCredential(call, env)) =>
        /\ ~mon.provider
        /\ pc /= "entry" =>
            /\ pc = "done"
            /\ ~result.success
            /\ result.error /= ""
            /\ result.items = <<>>

\* generateAnimationFrames has returned with only the placeholder configured
C2_Witness ==
    /\ call.fn = "generateAnimationFrames"
    /\ pc = "done"
    /\ NoCredential(call, env)
    /\ env.geminiKey = Placeholder
    /\ ~result.success

\* C3: in the sprite, scene and direct-animation flows every number of images
\* asked of a provider lies between 1 and 4, whatever quantity was requested.
C3_QuantityClamped ==
    req.route \in {"sprite", "scene", "direct-animation"} =>
        \A n \in mon.asked : 1 <= n /\ n <= MaxImages

\* C4: no polling loop issues a poll for a job after a response for that job,
\* the creation response included, carried 'succeeded' or 'failed'.
C4_NoPollAfterTerminal == ~mon.pollTerm

\* a job that was created unfinished has been polled and is now terminal
C4_Witness ==
    /\ pc \in {"cr_poll", "gar_poll", "cra_poll"}
    /\ loc.seen >= 1
    /\ loc.pred.status \in {"succeeded", "failed"}
    /\ ~mon.pollTerm

\* C5: a result of generateImages, generateAnimationFrames or
\* generateDirectAnimation with success:true has at least one image or frame.
C5_SuccessNonEmpty ==
    (pc = "done" /\ result.success
        /\ call.fn \in {"generateImages", "generateAnimationFrames", "generateDirectAnimation"}) =>
        Len(result.items) > 0

\* C6: once a generation job of generateImages, generateAnimationFrames,
\* generateDirectAnimation or generateSpritesheet has reported 'failed', with
\* or without error text, the call does nothing but return, and it returns
\* success:false with a non-empty error.
C6_FailedJobFails ==
    mon.failed =>
        IF pc = "done"
        THEN ~result.success /\ result.error /= ""
        ELSE pc \in {"cr_poll", "gar_poll", "cra_poll"} /\ loc.pred.status = "failed"

\* a call has returned after a job that failed without any error text
C6_Witness ==
    /\ mon.failed
    /\ pc = "done"
    /\ result.error \in {"Replicate generation failed", "Animation generation failed"}

\* C7: a successful generateAnimationFrames call with n descriptions returns
\* n frames, frame i being the image of the job submitted for description i.
C7_FramesInOrder ==
    (call.fn = "generateAnimationFrames" /\ pc = "done" /\ result.success) =>
        /\ Len(result.items) = call.nFrames
        /\ \A i \in 1..Len(result.items) : result.items[i].job = i

\* C8: a successful generateImages call with quantity q in 1..4 returns
\* exactly q images.
C8_ExactlyQuantity ==
    (call.fn = "generateImages" /\ pc = "done" /\ result.success
        /\ call.quantity \in 1..MaxImages) =>
        Len(result.items) = call.quantity

\* C9: in every generation route deductCredits is called at most once per
\* request, and only when the generation call has returned success:true and
\* the request carries no apiKey.
C9_DeductAfterSuccess ==
    /\ Len(deducted) <= 1
    /\ deducted /= <<>> =>
        /\ pc = "done"
        /\ result.success
        /\ ~Truthy(req.apiKey)

\* a spritesheet request on platform credits was charged and answered
C9_Witness ==
    /\ req.route = "spritesheet"
    /\ Len(deducted) = 1
    /\ rpc = "responded"
    /\ resp.status = 200

\* a found user, no apiKey, and a balance below what the route requires
Underfunded ==
    /\ user /= NoUser
    /\ ~Truthy(req.apiKey)
    /\ user.credits < CreditsRequired(req)

\* nothing was sent to a provider, deducted or written
Untouched ==
    /\ ~mon.provider
    /\ deducted = <<>>
    /\ store.blobWrites = 0
    /\ store.dbWrites = 0

\* the request was answered by a check the route makes before the credit
\* check: the character image of the animation route; the ids, the asset
\* lookup and the preset of the spritesheet route
RejectedEarlier ==
    \/ /\ req.route = "animation"
       /\ req.charImage = "missing"
       /\ resp.status = 400
    \/ /\ req.route = "spritesheet"
       /\ \/ /\ resp.status = 400
             /\ ~Truthy(req.assetId) \/ req.presetId \notin PresetIds
          \/ /\ resp.status = 404
             /\ req.assetId /= "own-asset"
          \/ /\ resp.status = 500
             /\ resp.error = "Failed to generate spritesheet"

\* C10 as stated: an underfunded request on platform credentials ends with
\* 402 'Insufficient credits', with no provider request, deduction or write.
C10_Ends402 ==
    Underfunded =>
        /\ Untouched
        /\ rpc = "responded" => resp.status = 402 /\ resp.error = "Insufficient credits"

\* C10: an underfunded request on platform credentials causes no provider
\* request, deduction or write, and it ends with 402 'Insufficient credits'
\* unless a check the animation or spritesheet route makes before the credit
\* check has already answered it.
C10_Ends402OrEarlier ==
    Underfunded =>
        /\ Untouched
        /\ rpc = "responded" =>
            \/ resp.status = 402 /\ resp.error = "Insufficient credits"
            \/ RejectedEarlier

\* an underfunded animation request that passed validation was answered 402
C10_Witness ==
    /\ Underfunded
    /\ req.route = "animation"
    /\ rpc = "responded"
    /\ resp.status = 402

\* the routes that upload a batch item by item
UploadRoutes == {"sprite", "scene", "animation", "direct-animation"}

\* where the loop put its first entry for item i: one slot further for every
\* earlier item whose asset creation failed
SlotOf(i) == i + Cardinality({c \in store.createFailed : c < i})

\* C11: when uploadGeneratedImage has failed for an item of the batch, the
\* upload loop goes on, the request ends with the success response, that
\* response carries the item's own data payload as the entry of the item, and
\* uploadGeneratedImage was called for every item of the batch.
C11_PartialFailureKept ==
    (req.route \in UploadRoutes /\ store.failed /= {}) =>
        IF rpc = "responded"
        THEN /\ resp.status = 200
             /\ store.tried = 1..Len(result.items)
             /\ \A i \in store.failed :
                    /\ SlotOf(i) <= Len(resp.items)
                    /\ resp.items[SlotOf(i)] = Embedded(result.items[i])
        ELSE rpc \in {"upload", "asset"}

\* the upload of item 1 failed, item 2 was uploaded, and the response went out
C11_Witness ==
    /\ req.route \in UploadRoutes
    /\ rpc = "responded"
    /\ resp.status = 200
    /\ store.failed = {1}
    /\ Len(resp.items) = 2
    /\ resp.items[2] = Durable(result.items[2])

\* C12: the images/frames list of a success response has the length of the
\* generated list, and its entry i stands for generated item i.
C12_IndexMapping ==
    (req.route \in UploadRoutes /\ rpc = "responded" /\ resp.status = 200) =>
        /\ Len(resp.items) = Len(result.items)
        /\ \A i \in 1..Len(resp.items) : resp.items[i].item = result.items[i]

\* C13: when the refinement job of generateImages or generateDirectAnimation
\* cannot be created or ends 'failed', refinePromptWithIntelligence does not
\* raise: it returns buildPrompt's text, and the call goes on to its
\* generation job (whenever it is asked for at least one image).
C13_RefinementAbsorbed ==
    (call.fn \in {"generateImages", "generateDirectAnimation"} /\ mon.refine /= "none") =>
        /\ mon.refine = "absorbed"
        /\ (pc = "done" /\ call.quantity >= 1) => mon.gen

\* C14: generateImages, generateDirectAnimation and generateSpritesheet never
\* end by throwing: after a failed job creation, poll, job status or output
\* fetch the call returns a result with success:false and an error.
C14_NeverRaises ==
    (pc = "done"
        /\ call.fn \in {"generateImages", "generateDirectAnimation", "generateSpritesheet"}) =>
        /\ ~result.thrown
        /\ mon.fault => ~result.success /\ result.error /= ""

\* generateImages has returned after the fetch of a job's output was rejected
C14_Witness ==
    /\ pc = "done"
    /\ call.fn = "generateImages"
    /\ mon.fault
    /\ mon.gen
    /\ ~mon.failed
    /\ result.error = "fetch failed"
    /\ ~result.success

\* C15: on the platform polling path of generateImages the generation job is
\* created against the configured REPLICATE_MODEL_ID and no other model.
C15_PlatformModel ==
    (call.fn = "generateImages" /\ ~OwnKey(call) /\ mon.path = "replicate"
        /\ loc.stage = "gen" /\ pc \in {"cr_first", "cr_create", "cr_poll"}) =>
        /\ loc.modelId = env.modelId
        /\ loc.model = env.modelId

\* the lookup returns the entry that carries the id it was asked for, and
\* four_angle_walking is the 16-frame 48x48 entry
CatalogExact ==
    /\ \A id \in PresetIds : getAnimationPreset(id).id = id
    /\ getAnimationPreset("four_angle_walking").frameCount = 16
    /\ getAnimationPreset("four_angle_walking").width = 48
    /\ getAnimationPreset("four_angle_walking").height = 48

\* generateSpritesheet with an id outside the catalog fails without a request
UnknownPresetFails ==
    (call.fn = "generateSpritesheet" /\ call.presetId \notin PresetIds) =>
        /\ ~mon.provider
        /\ pc /= "entry" => pc = "done" /\ ~result.success /\ result.error /= ""

\* a successful generateSpritesheet reports the frame count of the entry
KnownPresetResolved ==
    (call.fn = "generateSpritesheet" /\ pc = "done" /\ result.success) =>
        /\ call.presetId \in PresetIds
        /\ \E i \in 1..Len(ANIMATION_PRESETS) :
            /\ ANIMATION_PRESETS[i].id = call.presetId
            /\ result.frameCount = ANIMATION_PRESETS[i].frameCount

\* a spritesheet request of a found user that names an id outside the catalog
UnknownPresetRequest ==
    /\ req.route = "spritesheet"
    /\ user /= NoUser
    /\ Truthy(req.presetId)
    /\ req.presetId \notin PresetIds

C17_LayoutRule ==
    (call.fn = "generateSpritesheet" /\ pc = "done" /\ result.success) =>
        /\ result.layout = "grid" <=> result.frameCount > 8
        /\ result.layout \in {"grid", "horizontal"}
        /\ call.presetId \in {"four_angle_walking", "walking_and_idle", "small_sprites"}
               => result.layout = "grid"
        /\ call.presetId = "vfx" => result.layout = "horizontal"

\* the 8-frame preset, generated at a custom size, came out 'horizontal'
C17_Witness ==
    /\ call.fn = "generateSpritesheet"
    /\ pc = "done"
    /\ result.success
    /\ call.presetId = "vfx"
    /\ call.customSize /= 0
    /\ result.frameWidth = call.customSize
    /\ result.layout = "horizontal"

PartialBodyMarkers ==
    {"half body", "half-body", "upper body", "above chest", "portrait", "bust",
     "headshot", "face only", "torso"}

\* the text has the marker at place i, letter case aside
MarkerAt(text, marker, i) ==
    /\ i + Len(marker) - 1 <= Len(text)
    /\ \A k \in 1..Len(marker) :
           LowerChar(CharAt(text, i + k - 1)) = LowerChar(CharAt(marker, k))

ContainsMarker(text) ==
    \E marker \in PartialBodyMarkers : \E i \in 1..Len(text) : MarkerAt(text, marker, i)

\* C18: the prompt buildPrompt returns has the full-body clause exactly when
\* the kind is sprite, the subtype is not object and the user's prompt contains
\* none of the nine partial-body markers in any letter case; for a scene or an
\* object sprite the clause is never there.
C18_FullBodyClause ==
    fullPrompt /= "" =>
        (includes(fullPrompt, FullBodyClause)
            <=> /\ params.type = "sprite"
                /\ params.spriteType /= "object"
                /\ ~ContainsMarker(params.prompt))

\* a character sprite whose prompt spells a marker in capitals was built
\* without the clause
C18_Witness ==
    /\ fullPrompt /= ""
    /\ params.type = "sprite"
    /\ params.spriteType = "character"
    /\ params.prompt = "Ogre TORSO"
    /\ ~includes(fullPrompt, FullBodyClause)

\* the pair the lookup table gives for a ratio, 1024x1024 for every other value
ExpectedSize(aspectRatio) ==
    CASE aspectRatio = "2:3" -> "688x1024"
      [] aspectRatio = "1:1" -> "1024x1024"
      [] aspectRatio = "9:16" -> "576x1024"
      [] aspectRatio = "4:3" -> "1024x768"
      [] aspectRatio = "3:2" -> "1024x688"
      [] aspectRatio = "16:9" -> "1024x576"
      [] OTHER -> "1024x1024"

\* C19: the prompt buildPrompt returns states the image size as the table's
\* width x height pair for each of the six aspect ratios of the table, and as
\* 1024x1024 for every other ratio value.
C19_TableDimensions ==
    fullPrompt /= "" =>
        includes(fullPrompt,
                 "The image should be " \o ExpectedSize(params.aspectRatio)
                     \o " pixels (" \o params.aspectRatio \o " aspect ratio). ")

\* the request of an authenticated, known user fails input validation
FailsValidation ==
    /\ user /= NoUser
    /\ \/ /\ req.route \in {"sprite", "scene", "direct-animation"}
          /\ req.prompt /= "ok"
       \/ /\ req.route = "animation"
          /\ req.charImage = "missing" \/ req.frames < 1

\* the sprite, scene and direct-animation routes compare the balance with the
\* cost of the route before they look at the prompt
CreditCheckFirst ==
    /\ req.route \in {"sprite", "scene", "direct-animation"}
    /\ user.credits < CreditsRequired(req)
    /\ resp.status = 402
    /\ resp.error = "Insufficient credits"

\* C20 as stated: a request that fails input validation is answered 400, with
\* no provider request, deduction or write.
C20_Answered400 ==
    FailsValidation =>
        /\ Untouched
        /\ rpc = "responded" => resp.status = 400

\* C20: a request that fails input validation causes no provider request,
\* deduction or write; it is answered 400, unless it is a sprite, scene or
\* direct-animation request of a user whose balance is below the cost of the
\* route, which the credit check answers 402 before the prompt is looked at.
C20_Answered400Or402 ==
    FailsValidation =>
        /\ Untouched
        /\ pc = "idle"
        /\ rpc = "responded" => resp.status = 400 \/ CreditCheckFirst

\* a sprite request with a blank prompt, of a user who can pay, was answered 400
C20_Witness ==
    /\ FailsValidation
    /\ req.route = "sprite"
    /\ req.prompt = "blank"
    /\ user.credits >= SpriteCredits
    /\ rpc = "responded"
    /\ resp.status = 400
    /\ resp.error = "Prompt is required"

\* C21: when callReplicate comes to poll, it has made exactly one POST to a
\* predictions endpoint.
C21_OneCreationPost ==
    pc = "cr_poll" => mon.posts = 1

\* the shape of a model identifier
OwnerAndName(model) == includes(model, "/") /\ ~includes(model, ":")
WithVersion(model) == includes(model, ":")

PollSteps == {"cr_poll", "gar_poll", "cra_poll"}

\* a job-creation response outside 200..299 was read
Refused == mon.non2xx.status /= 0

\* no job is polled after such a response, and the error raised for it names
\* its status code
RefusedRaises ==
    /\ pc \in PollSteps => (mon.last >= 200 /\ mon.last <= 299)
    /\ Refused => includes(mon.non2xx.raised, ToString(mon.non2xx.status))

\* the refused job was the prompt refinement of generateImages, whose errors
\* refinePromptWithIntelligence catches
RefinementOfImages == call.fn = "generateImages" /\ mon.non2xx.stage = "refine"

JobsSettle ==
    []<>(pc \notin PollSteps \/ loc.pred.status \in {"succeeded", "failed"})

\* a call that was entered returns
Returns == (pc = "entry") ~> (pc = "done")

C25_NoRetryAfterFailed ==
    mon.failed =>
        \/ pc \in PollSteps /\ loc.pred.status = "failed"
        \/ pc = "done" /\ ~result.success /\ result.items = <<>>

\* generateAnimationFrames with MaxFrames frames returned a failure after a
\* job reported 'failed'
C25_Witness ==
    /\ mon.failed
    /\ call.fn = "generateAnimationFrames"
    /\ call.nFrames = MaxFrames
    /\ pc = "done"
    /\ ~result.success
    /\ result.items = <<>>

\* where a call stands when it is about to create a job
CreateSteps == {"cr_first", "cr_create", "gar_loop", "cra_create"}

InQwen ==
    /\ call.fn = "generateImages"
    /\ call.poseImage
    /\ loc.stage = "gen"
    /\ pc \in {"cr_poll", "gwr_fetch"}

\* C27: generateWithQwen is one request and its response: it sends a single
\* POST and no poll request, whatever status the response carries.
C27_QwenSingleRequest ==
    InQwen => (mon.posts = 1 /\ ~mon.polled)

ImageEditJob ==
    [model |-> "qwen/qwen-image-edit-plus",
     input |-> [aspect_ratio |-> "match_input_image", disable_safety_checker |-> TRUE]]

StandardJob ==
    [model |-> "retro-diffusion/rd-plus",
     input |-> [aspect_ratio |-> "", disable_safety_checker |-> FALSE]]

\* C28: on the Replicate path of generateImages a request with a pose image
\* submits its generation job to the image-edit model only, with aspect_ratio
\* 'match_input_image' and the safety checker disabled; a request without one
\* submits to the standard model only.
C28_ModelByPoseImage ==
    (call.fn = "generateImages" /\ mon.path = "replicate") =>
        mon.submitted \subseteq (IF call.poseImage THEN {ImageEditJob} ELSE {StandardJob})

\* a request with a pose image has had its job submitted to the image-edit
\* model
C28_Witness ==
    /\ call.fn = "generateImages"
    /\ call.poseImage
    /\ pc = "cr_poll"
    /\ loc.stage = "gen"
    /\ mon.submitted = {ImageEditJob}

\* the text is 'WxH' with W and H written in digits
IsWxH(text) ==
    \E i \in 2..(Len(text) - 1) :
        /\ CharAt(text, i) = "x"
        /\ IsDigits(SubSeq(text, 1, i - 1))
        /\ IsDigits(SubSeq(text, i + 1, Len(text)))

\* the table entry of a ratio scaled to a larger side of 384; the default
\* entry for a ratio the table does not have
ExpectedScaled(aspectRatio) ==
    CASE aspectRatio = "2:3" -> <<258, 384>>
      [] aspectRatio = "1:1" -> <<384, 384>>
      [] aspectRatio = "9:16" -> <<216, 384>>
      [] aspectRatio = "4:3" -> <<384, 288>>
      [] aspectRatio = "3:2" -> <<384, 258>>
      [] aspectRatio = "16:9" -> <<384, 216>>
      [] OTHER -> <<384, 384>>

\* C29: the width and height put in the standard model's input are the
\* explicit 'WxH' dimensions when these are given, and otherwise the
\* aspect-ratio table entry scaled to a larger side of 384, for the six ratios
\* of the table and, with the default entry, for any other ratio.
C29_SizeSent ==
    input /= NoInput =>
        /\ IsWxH(params.dimensions) =>
               /\ input.width = Num(DigitsValue(SplitFirst(params.dimensions, "x")))
               /\ input.height = Num(DigitsValue(SplitSecond(params.dimensions, "x")))
        /\ (params.dimensions = "" /\ params.aspectRatio /= "") =>
               /\ input.width = Num(ExpectedScaled(params.aspectRatio)[1])
               /\ input.height = Num(ExpectedScaled(params.aspectRatio)[2])

\* the pose sentence of the description at 0-based position j
PoseSentence(j) == "POSE FOR THIS FRAME: " \o FrameDescription(j + 1) \o ". "

\* C30: in the animation-frames flow the prompt built for the frame at 0-based
\* position i of n descriptions says 'frame i+1 of n' and has the pose of
\* description i and of no other description.
C30_FramePrompt ==
    (call.fn = "generateAnimationFrames" /\ mon.frame.index >= 0) =>
        LET i == mon.frame.index
            n == call.nFrames
        IN  /\ i < n
            /\ includes(mon.frame.prompt,
                        "This is frame " \o ToString(i + 1) \o " of " \o ToString(n) \o " for")
            /\ \A j \in 0..(n - 1) :
                   includes(mon.frame.prompt, PoseSentence(j)) <=> j = i

\* the prompt of the last of MaxFrames frames has been built
C30_Witness ==
    /\ call.fn = "generateAnimationFrames"
    /\ call.nFrames = MaxFrames
    /\ mon.frame.index = MaxFrames - 1
    /\ includes(mon.frame.prompt, PoseSentence(MaxFrames - 1))

\* C31: a generateSpritesheet result with success:true carries a defined
\* sheet URL, the first URL of the job's output, whatever the shape of the
\* output of the succeeded job (a string, a list, an empty list).
C31_SheetUrlDefined ==
    (pc = "done" /\ call.fn = "generateSpritesheet" /\ result.success) =>
        /\ result.url /= UndefinedUrl
        /\ result.url = Url(1, 1)

\* C32: a call inside a polling loop holds a job's report: a poll response
\* without a status field has ended the call with an error, it is not taken
\* for a non-terminal status, and the next poll request goes to the job the
\* call created.
C32_PollErrorFails ==
    pc \in PollSteps =>
        /\ loc.pred.status \in Statuses
        /\ PollUrl(loc.pred) = JobUrl

\* where a handler stands once deductCredits has returned
AfterDeduction == {"post", "project", "upload", "asset", "sheet_asset"}

\* C33: a request for which deductCredits was called and has returned is
\* answered with a success response, whatever fails after the deduction.
C33_ChargedThenSuccess ==
    [][(rpc \in AfterDeduction /\ deducted /= <<>> /\ rpc' = "responded")
            => resp'.status = 200]_vars

\* C34: on platform credentials the amount passed to deductCredits is at most
\* the amount the credit check before the generation asked the balance to
\* cover.
C34_DeductWithinCheck ==
    \A n \in 1..Len(deducted) : deducted[n] <= CreditsRequired(req)

\* the amount passed to deductCredits for the request, 0 when it was not called
Charged == IF deducted = <<>> THEN 0 ELSE deducted[1]

\* C35: creditsUsed of a success response is the amount passed to
\* deductCredits for the request, 0 when an own key is used, and
\* remainingCredits is the checked balance less that amount.
C35_ReportedIsCharged ==
    (rpc = "responded" /\ resp.status = 200) =>
        /\ resp.creditsUsed = Charged
        /\ resp.remainingCredits = user.credits - Charged
        /\ Truthy(req.apiKey) => resp.creditsUsed = 0

\* C36: a request that carries the caller's own API key is never answered
\* 402 'Insufficient credits', whatever the balance, on any route.
C36_OwnKeyNever402 ==
    (rpc = "responded" /\ Truthy(req.apiKey)) =>
        ~(resp.status = 402 /\ resp.error = "Insufficient credits")

\* C37: for two requests of one user handled at the same time, the total
\* passed to deductCredits never exceeds the balance the user held before
\* them, and a handler that is about to deduct finds the balance covering
\* its amount.
C37_NoOverdraft ==
    /\ ledger.taken <= ledger.held
    /\ \A h \in HandlerIds :
        handlers[h].pc = "deducting" => ledger.balance >= DeductAmount(handlers[h].req)

\* the last call was made with a user id on a document of another owner
OnForeignAsset ==
    /\ aret.op \in {"findById", "update", "delete", "hardDelete"}
    /\ Truthy(aret.userId)
    /\ aret.before.exists
    /\ aret.before.user_id /= aret.userId

\* C38: no call made with a user id has returned, modified, soft-deleted or
\* removed an asset of another owner: every such call reports null or 'Asset
\* not found' and leaves the document as it was.
C38_OwnerIsolation ==
    /\ \A id \in AssetIds :
        (assets[id].writer /= "none" /\ Truthy(assets[id].writer)) =>
            assets[id].writer = assets[id].user_id
    /\ (aret.kind = "asset" /\ Truthy(aret.userId)) => aret.asset.user_id = aret.userId
    /\ OnForeignAsset =>
        /\ IF aret.op = "findById" THEN aret.kind = "null"
           ELSE aret.kind = "error" /\ aret.error = "Asset not found"
        /\ assets[aret.id] = aret.before

\* bob's delete of alice's asset, which she had renamed, was refused
C38_Witness ==
    /\ OnForeignAsset
    /\ aret.op = "delete"
    /\ aret.userId = "bob"
    /\ aret.error = "Asset not found"
    /\ assets[aret.id].user_id = "alice"
    /\ assets[aret.id].name = "renamed"
    /\ assets[aret.id].status = "active"

\* the last call was made by the owner on an asset that was soft-deleted
OnDeletedAsset ==
    /\ aret.op \in {"findById", "delete"}
    /\ aret.before.exists
    /\ aret.before.status = "deleted"
    /\ aret.before.user_id = aret.userId

\* C39: a soft-deleted asset is no longer visible to its owner: list without
\* a status filter leaves it out, findById returns null for it, and a second
\* delete of it fails.
C39_DeletedInvisible ==
    /\ (aret.op = "list" /\ aret.arg = "") =>
        \A id \in aret.ids : assets[id].status /= "deleted"
    /\ OnDeletedAsset =>
        IF aret.op = "findById" THEN aret.kind = "null" ELSE aret.kind = "error"

====
